---------------------------- MODULE Spec2Model ----------------------------
(***************************************************************************)
(* Paper Birthdays: the HTTP client with retries (src/lib/api/client.ts),  *)
(* the historical window calculator, the rank step, the daily selection    *)
(* pipeline with its Daily Feature Store, and the per-provider rate        *)
(* limiter.                                                                *)
(***************************************************************************)
EXTENDS Integers, Sequences, FiniteSets, TLC

Min(a, b) == IF a <= b THEN a ELSE b

Range(s) == {s[i] : i \in DOMAIN s}

RECURSIVE Pow2(_)
Pow2(n) == IF n <= 0 THEN 1 ELSE 2 * Pow2(n - 1)

VARIABLES
  \* ApiClient.request
  retries,      \* config.api.retries
  attempt,      \* request(): let attempt
  sends,        \* number of axiosInstance.request calls made
  pcReq,        \* "ready" | "inflight" | "sleeping" | "returned" | "thrown"
  errors,       \* the errors the sends rejected with, in order
  delay,        \* the backoff delay being slept, 0 when none
  sleeps,       \* number of backoff waits started
  \* Historical Window Calculator
  wTarget,      \* the target date [y, m, d]
  wYearsBack,   \* yearsBack
  wDates,       \* the returned list of dates
  wPc,          \* "call" before the call, "done" after it
  \* rank step
  rankIn,       \* the candidate papers in their input order
  rankCount,    \* select_top_papers(papers, count): how many to keep
  rankOut,      \* the ranked top papers
  rankPc,       \* "call" before the call, "done" after it
  \* Daily Feature Store, Paper Repository, Run Ledger and caches
  featured,     \* rows of daily_featured_papers, committed, in insert order
  chosen,       \* key -> the paper recorded as chosen (0: none)
  txRows,       \* rows written by the open transaction, not yet committed
  ttlCache,     \* key -> the paper held by the in-memory TTL cache (0: none)
  papersTable,  \* rows of the papers table: [id, citationCount]
  ledger,       \* rows of fetch_history, in insert order
  shortlists,   \* key -> what the committed run ranked: [cands, top]
  \* one selectDailyPaper invocation
  pc,           \* "idle" | "fetch" | "enrich" | "persist" | "done"
  run,          \* the locals of the running invocation
  runs,         \* number of invocations started
  done,         \* key -> the result of the first completed call, if any
  world,        \* what the providers hold: papers of the window, citations
  \* Rate-Limited HTTP Client
  now,          \* the time in milliseconds
  queue,        \* provider -> the submitted requests waiting, oldest first
  inflight,     \* provider -> the requests being sent
  lastStart,    \* provider -> when its last send started (-1: never)
  starts,       \* provider -> the sends started, in order: [id, at]
  nextReq,      \* the number the next submitted request gets
  \* dailyPaperFetchJob
  jobCats,      \* the categories requested, in processing order
  jobPos,       \* position of the category processed next
  jobOutcomes,  \* how the processing of each category so far ended
  jobStatuses,  \* the final status of each category processed so far
  jobLedger,    \* the RunRecords written by this orchestration run
  jobPc,        \* "idle" | "running" | "crashed" | "interrupted" | "exited"
  exitStatus,   \* the exit code of the process (-1: none yet)
  \* Paper Repository: papers
  repoRows,     \* the rows of the papers table
  repoSerial,   \* the next value of the id sequence
  repoClock,    \* CURRENT_TIMESTAMP
  up,           \* caller -> its upsert call in progress
  upCalls,      \* upsert calls started
  lastUpsert,   \* the last upsert that ended: arguments, table before
  \* Two interleaved selectDailyPaper invocations
  raceKey,      \* the (featureDate, category) both are called with
  inv,          \* invocation -> its position, shortlist, transaction, result
  \* Read side: useSWR state of a page
  selection,    \* the paper selected for the key (0: no FeaturedSelection)
  swrData,      \* useSWR data (0: undefined)
  swrError,     \* useSWR error ("none": undefined)
  swrValidating,\* useSWR isValidating
  fetches,      \* requests started by the page
  lastAnswer,   \* how the last request ended
  \* historyQuery
  hqParams,     \* the params argument of the call
  hqPc,         \* "off" | "called" | "awaiting" | "returned" | "thrown"
  hqRequests,   \* the logical requests handed to apiClient.get
  hqError,      \* the ValidationError thrown, if any
  \* Selection Engine: date-fetches of one window in any order
  ordCites,     \* date -> citation count of the date's paper
  ordPending,   \* dates whose fetch has not started
  ordInflight,  \* dates whose fetch is running
  ordFailed,    \* dates whose fetch failed
  ordRaw,       \* the papers accumulated, in the order the fetches settled
  ordPc,        \* "off" | "fetch" | "ranked" | "persisted"
  ordSettledAtRank,\* date-fetches settled when the rank step started
  ordShortlist, \* the shortlist ranked and written
  \* run_daily_job.sh
  shCode,       \* the exit code daily_job.py ends with
  shPc,         \* "off" | "start" | "run" | "logStatus" | "trap" | "exited"
  shLog,        \* the lines logged
  shStatus,     \* $? of the last command
  shExit,       \* the exit code of the script (-1: running)
  \* ApiClient.calculateRetryDelay
  dlBase,       \* config.api.retryDelay
  dlAttempt,    \* the attempt number
  dlDelay,      \* the delay computed (-1: not yet)
  \* FavoritesProvider
  favorites,    \* the rendered favorites state (list of entries)
  favQueue,     \* state updaters queued since the last render
  favStored,    \* localStorage 'paper-birthdays-favorites', parsed
  \* useFavoritePapers
  fpFavorites,  \* the rendered favorites Set, in insertion order
  fpQueue,      \* state updaters queued since the last render
  fpStored,     \* localStorage 'favorite-papers', parsed
  \* InfiniteScroll
  fallbackToButton,\* prop: load with a button, no observer
  hasMore,      \* prop hasMore as last rendered
  scIsLoading,  \* prop isLoading as last rendered
  isLoadingTriggered,\* the rendered isLoadingTriggered state
  scUpdates,    \* setIsLoadingTriggered values queued since the last render
  scOutstanding,\* loadMore() promises not yet settled
  scSettled     \* how the last loadMore() settled

clientVars == <<retries, attempt, sends, pcReq, errors, delay, sleeps>>

windowVars == <<wTarget, wYearsBack, wDates, wPc>>

rankVars == <<rankIn, rankCount, rankOut, rankPc>>

storeVars == <<featured, chosen, txRows, ttlCache, papersTable, ledger, shortlists>>

runVars == <<pc, run, runs, done, world>>

limiterVars == <<now, queue, inflight, lastStart, starts, nextReq>>

jobVars == <<jobCats, jobPos, jobOutcomes, jobStatuses, jobLedger, jobPc,
             exitStatus>>

repoVars == <<repoRows, repoSerial, repoClock, up, upCalls, lastUpsert>>

raceVars == <<raceKey, inv>>

pageVars == <<selection, swrData, swrError, swrValidating, fetches, lastAnswer>>

historyVars == <<hqParams, hqPc, hqRequests, hqError>>

orderVars == <<ordCites, ordPending, ordInflight, ordFailed, ordRaw, ordPc,
    ordSettledAtRank, ordShortlist>>

wrapperVars == <<shCode, shPc, shLog, shStatus, shExit>>

delayVars == <<dlBase, dlAttempt, dlDelay>>

favoritesVars == <<favorites, favQueue, favStored>>

hookVars == <<fpFavorites, fpQueue, fpStored>>

scrollVars == <<fallbackToButton, hasMore, scIsLoading, isLoadingTriggered, scUpdates,
    scOutstanding, scSettled>>

vars ==
  <<clientVars, windowVars, rankVars, storeVars, runVars, limiterVars,
    jobVars, repoVars, raceVars, pageVars, historyVars, orderVars,
    wrapperVars, delayVars, favoritesVars, hookVars, scrollVars>>

notClient ==
  <<windowVars, rankVars, storeVars, runVars, limiterVars, jobVars,
    repoVars, raceVars, pageVars, historyVars, orderVars, wrapperVars,
    delayVars, favoritesVars, hookVars, scrollVars>>

notWindow ==
  <<clientVars, rankVars, storeVars, runVars, limiterVars, jobVars,
    repoVars, raceVars, pageVars, historyVars, orderVars, wrapperVars,
    delayVars, favoritesVars, hookVars, scrollVars>>

notRank ==
  <<clientVars, windowVars, storeVars, runVars, limiterVars, jobVars,
    repoVars, raceVars, pageVars, historyVars, orderVars, wrapperVars,
    delayVars, favoritesVars, hookVars, scrollVars>>

notPipeline ==
  <<clientVars, windowVars, rankVars, limiterVars, jobVars, repoVars,
    raceVars, pageVars, historyVars, orderVars, wrapperVars, delayVars,
    favoritesVars, hookVars, scrollVars>>

notLimiter ==
  <<clientVars, windowVars, rankVars, storeVars, runVars, jobVars,
    repoVars, raceVars, pageVars, historyVars, orderVars, wrapperVars,
    delayVars, favoritesVars, hookVars, scrollVars>>

notJob ==
  <<clientVars, windowVars, rankVars, storeVars, runVars, limiterVars,
    repoVars, raceVars, pageVars, historyVars, orderVars, wrapperVars,
    delayVars, favoritesVars, hookVars, scrollVars>>

notRepo ==
  <<clientVars, windowVars, rankVars, storeVars, runVars, limiterVars,
    jobVars, raceVars, pageVars, historyVars, orderVars, wrapperVars,
    delayVars, favoritesVars, hookVars, scrollVars>>

notRace ==
  <<clientVars, windowVars, rankVars, runVars, limiterVars, jobVars,
    repoVars, pageVars, historyVars, orderVars, wrapperVars, delayVars,
    favoritesVars, hookVars, scrollVars>>

notPage ==
  <<clientVars, windowVars, rankVars, storeVars, runVars, limiterVars,
    jobVars, repoVars, raceVars, historyVars, orderVars, wrapperVars,
    delayVars, favoritesVars, hookVars, scrollVars>>

notHistory ==
  <<clientVars, windowVars, rankVars, storeVars, runVars, limiterVars,
    jobVars, repoVars, raceVars, pageVars, orderVars, wrapperVars,
    delayVars, favoritesVars, hookVars, scrollVars>>

notOrder ==
  <<clientVars, windowVars, rankVars, storeVars, runVars, limiterVars,
    jobVars, repoVars, raceVars, pageVars, historyVars, wrapperVars,
    delayVars, favoritesVars, hookVars, scrollVars>>

notWrapper ==
  <<clientVars, windowVars, rankVars, storeVars, runVars, limiterVars,
    jobVars, repoVars, raceVars, pageVars, historyVars, orderVars,
    delayVars, favoritesVars, hookVars, scrollVars>>

notDelay ==
  <<clientVars, windowVars, rankVars, storeVars, runVars, limiterVars,
    jobVars, repoVars, raceVars, pageVars, historyVars, orderVars,
    wrapperVars, favoritesVars, hookVars, scrollVars>>

notFavorites ==
  <<clientVars, windowVars, rankVars, storeVars, runVars, limiterVars,
    jobVars, repoVars, raceVars, pageVars, historyVars, orderVars,
    wrapperVars, delayVars, hookVars, scrollVars>>

notHook ==
  <<clientVars, windowVars, rankVars, storeVars, runVars, limiterVars,
    jobVars, repoVars, raceVars, pageVars, historyVars, orderVars,
    wrapperVars, delayVars, favoritesVars, scrollVars>>

notScroll ==
  <<clientVars, windowVars, rankVars, storeVars, runVars, limiterVars,
    jobVars, repoVars, raceVars, pageVars, historyVars, orderVars,
    wrapperVars, delayVars, favoritesVars, hookVars>>

(***************************************************************************)
(* ApiClient.request                                                       *)
(***************************************************************************)

\* Largest configured retry count explored (config.api.retries is read from
\* the environment; its default is DefaultRetries).
MaxRetries == 3

DefaultRetries == 3

DefaultRetryDelay == 1000

MaxDelayMs == 30000

\* What a failed send rejects with: an ApiError carrying an HTTP status, or
\* a NetworkError (no response: connection failure or ECONNABORTED timeout).
ApiErr(s) == [api |-> TRUE, status |-> s, code |-> "ERR_BAD_RESPONSE"]

NetErr(c) == [api |-> FALSE, status |-> 0, code |-> c]

Statuses == {400, 404, 408, 429, 500, 501, 503}

ErrorKinds ==
  {ApiErr(s) : s \in Statuses} \cup {NetErr("ECONNABORTED"), NetErr("ERR_NETWORK")}


\* transformError gives an ApiError (message, status) when a response was
\* received and a NetworkError (isNetworkError = true) when none was.
isApiError(e) == e.api

isNetworkErr(e) == ~e.api

retryableStatuses == {408, 429, 500, 502, 503, 504}

shouldRetry_AnyError(e, n) == n < retries

shouldRetry(e, n) ==
  IF n >= retries THEN FALSE
  ELSE IF isApiError(e) THEN e.status \in retryableStatuses
  ELSE isNetworkErr(e)

\* Math.random() * 0.1 * exponentialDelay lies in [0, exponentialDelay / 10).
Jitters(exponentialDelay) ==
  {0, exponentialDelay \div 20}
    \cup (IF exponentialDelay >= 10 THEN {(exponentialDelay \div 10) - 1}
                                    ELSE {})

delayFromBase_Uncapped(baseDelay, n, jitter) ==
  (baseDelay * Pow2(n - 1)) + jitter

\* Math.min(baseDelay * Math.pow(2, attempt - 1) + jitter, 30000)
delayFromBase(baseDelay, n, jitter) ==
  Min((baseDelay * Pow2(n - 1)) + jitter, MaxDelayMs)

calculateRetryDelay(n, jitter) == delayFromBase(DefaultRetryDelay, n, jitter)

ClientInit ==
  /\ retries \in 0..MaxRetries
  /\ attempt = 0
  /\ sends = 0
  /\ pcReq = "ready"
  /\ errors = <<>>
  /\ delay = 0
  /\ sleeps = 0

\* while (attempt < retries + 1) { response = await axiosInstance.request(...)
Send ==
  /\ pcReq = "ready"
  /\ attempt < retries + 1
  /\ sends' = sends + 1
  /\ pcReq' = "inflight"
  /\ UNCHANGED <<retries, attempt, errors, delay, sleeps, notClient>>

\* the awaited send resolves: return {data, status, headers}
RespondOk ==
  /\ pcReq = "inflight"
  /\ pcReq' = "returned"
  /\ UNCHANGED <<retries, attempt, sends, errors, delay, sleeps, notClient>>

nextAttempt_Stuck(n) == n

\* attempt++
nextAttempt(n) == n + 1

\* the awaited send rejects with e: the catch block
RespondError(e) ==
  /\ pcReq = "inflight"
  /\ errors' = Append(errors, e)
  /\ attempt' = nextAttempt(attempt)
  /\ IF ~shouldRetry(e, nextAttempt(attempt))
       THEN /\ pcReq' = "thrown"
            /\ UNCHANGED <<delay, sleeps>>
       ELSE IF nextAttempt(attempt) <= retries
         THEN \E j \in Jitters(DefaultRetryDelay * Pow2(nextAttempt(attempt) - 1)) :
                /\ delay' = calculateRetryDelay(nextAttempt(attempt), j)
                /\ sleeps' = sleeps + 1
                /\ pcReq' = "sleeping"
         ELSE /\ pcReq' = IF nextAttempt(attempt) < retries + 1
                            THEN "ready" ELSE "thrown"
              /\ UNCHANGED <<delay, sleeps>>
  /\ UNCHANGED <<retries, sends, notClient>>

\* await this.sleep(delay) resolves; the loop condition is tested again and
\* "throw lastError" follows the loop.
Wake ==
  /\ pcReq = "sleeping"
  /\ delay' = 0
  /\ pcReq' = IF attempt < retries + 1 THEN "ready" ELSE "thrown"
  /\ UNCHANGED <<retries, attempt, sends, errors, sleeps, notClient>>

ClientNext ==
  \/ Send
  \/ RespondOk
  \/ \E e \in ErrorKinds : RespondError(e)
  \/ Wake

(***************************************************************************)
(* Historical Window Calculator: get_last_10_years_dates                   *)
(***************************************************************************)

\* "the last 10 years of the same month/day"
LookbackYears == 10

\* Largest yearsBack explored, and the range of target years.
MaxYearsBack == 10

MinYear == 2000

MaxYear == 2024

TargetYears == (MinYear..MaxYear) \cup {2104, 2108}

MonthDays == {<<1, 15>>, <<2, 28>>, <<2, 29>>, <<3, 1>>, <<6, 12>>, <<12, 31>>}


Date(y, m, d) == [y |-> y, m |-> m, d |-> d]

isLeapYear(y) == (y % 4 = 0 /\ y % 100 # 0) \/ (y % 400 = 0)

daysInMonth(y, m) ==
  IF m = 2 THEN (IF isLeapYear(y) THEN 29 ELSE 28)
  ELSE IF m \in {4, 6, 9, 11} THEN 30 ELSE 31

isValidDate(dt) ==
  /\ dt.m \in 1..12
  /\ dt.d \in 1..daysInMonth(dt.y, dt.m)

\* The same month/day in year y; February 29th in a non-leap year gives
\* February 28th instead.
sameDayInYear(dt, y) ==
  IF dt.m = 2 /\ dt.d = 29 /\ ~isLeapYear(y)
    THEN Date(y, 2, 28)
    ELSE Date(y, dt.m, dt.d)

windowDates_SkipNonLeap(target, n) ==
  SelectSeq([i \in 1..n |-> Date(target.y - i, target.m, target.d)], isValidDate)

windowDates(target, n) ==
  [i \in 1..n |-> sameDayInYear(target, target.y - i)]

WindowInit ==
  /\ wTarget \in {dt \in {Date(y, md[1], md[2]) : y \in TargetYears, md \in MonthDays} :
                    isValidDate(dt)}
  /\ wYearsBack \in 0..MaxYearsBack
  /\ wDates = <<>>
  /\ wPc = "call"

WindowIdle ==
  /\ wTarget = Date(MinYear, 1, 15)
  /\ wYearsBack = 0
  /\ wDates = <<>>
  /\ wPc = "done"

GetWindowDates ==
  /\ wPc = "call"
  /\ wDates' = windowDates(wTarget, wYearsBack)
  /\ wPc' = "done"
  /\ UNCHANGED <<wTarget, wYearsBack, notWindow>>

(***************************************************************************)
(* Rank step: select_top_papers / selectDailyPaper step 5                  *)
(***************************************************************************)

\* "Get top 10 by citation count"
TopN == 10

\* Identifiers and citation counts of the candidate papers explored.
MaxPaperId == 4

MaxCitations == 1

\* A count below the number of candidates explored, besides TopN.
SmallCount == 2

Paper(id, c) == [id |-> id, citationCount |-> c]

\* Array.prototype.sort with the comparator (a, b) => b.citationCount -
\* a.citationCount: a stable sort, so papers the comparator calls equal keep
\* their input order.  Insertion of p behind every element that does not
\* compare after it.
RECURSIVE insertSorted(_, _)
insertSorted(sorted, p) ==
  IF sorted = <<>> THEN <<p>>
  ELSE IF sorted[Len(sorted)].citationCount - p.citationCount >= 0
    THEN Append(sorted, p)
    ELSE Append(insertSorted(SubSeq(sorted, 1, Len(sorted) - 1), p),
                sorted[Len(sorted)])

RECURSIVE sortByCitations(_)
sortByCitations(papers) ==
  IF papers = <<>> THEN <<>>
  ELSE insertSorted(sortByCitations(SubSeq(papers, 1, Len(papers) - 1)),
                    papers[Len(papers)])

selectTopPapers_NoSort(papers, count) ==
  SubSeq(papers, 1, Min(Len(papers), count))

selectTopPapers_OneMore(papers, count) ==
  SubSeq(sortByCitations(papers), 1, Min(Len(papers), count + 1))

selectTopPapers(papers, count) ==
  SubSeq(sortByCitations(papers), 1, Min(Len(papers), count))

\* Every list of papers with pairwise different identifiers.
RECURSIVE CandidateLists(_)
CandidateLists(n) ==
  IF n = 0 THEN {<<>>}
  ELSE LET shorter == CandidateLists(n - 1)
       IN shorter \cup
            {Append(l, Paper(id, c)) :
               l \in {x \in shorter : Len(x) = n - 1},
               id \in 1..MaxPaperId, c \in 0..MaxCitations}

HasDistinctIds(l) == \A i, j \in 1..Len(l) : i # j => l[i].id # l[j].id

RankInit ==
  /\ rankIn \in {l \in CandidateLists(MaxPaperId) : HasDistinctIds(l)}
  /\ rankCount \in {SmallCount, TopN}
  /\ rankOut = <<>>
  /\ rankPc = "call"

RankIdle ==
  /\ rankIn = <<>>
  /\ rankCount = TopN
  /\ rankOut = <<>>
  /\ rankPc = "done"

RankStep ==
  /\ rankPc = "call"
  /\ rankOut' = selectTopPapers(rankIn, rankCount)
  /\ rankPc' = "done"
  /\ UNCHANGED <<rankIn, rankCount, notRank>>

(***************************************************************************)
(* Daily Feature Store: daily_featured_papers                              *)
(***************************************************************************)

\* The SQL NULL of the category column ("NULL for main page").
NULL == "NULL"

FeatureDates == {"2024-06-12"}

Categories == {NULL, "cs.AI"}

Keys == FeatureDates \X Categories

Row(d, c, p, r) ==
  [feature_date |-> d, category |-> c, paper_id |-> p, rank_in_day |-> r]

\* SQL "=": a comparison with NULL is never true.
SqlEq(a, b) == a # NULL /\ b # NULL /\ a = b

\* UNIQUE(feature_date, category, paper_id): a row conflicts with a stored
\* row whose three columns all compare equal to its own (feature_date is NOT
\* NULL and every row written references a paper; category can be NULL).
uniqueViolation(table, row) ==
  \E i \in 1..Len(table) :
    /\ SqlEq(table[i].feature_date, row.feature_date)
    /\ SqlEq(table[i].category, row.category)
    /\ table[i].paper_id = row.paper_id

\* The rows of a (feature date, category) group; the cross-category group is
\* read with "category IS NULL".
rowsFor(table, key) ==
  SelectSeq(table, LAMBDA r : r.feature_date = key[1] /\ r.category = key[2])

NoShortlist == [cands |-> 0, top |-> <<>>]

StoreEmpty ==
  /\ featured = <<>>
  /\ chosen = [k \in Keys |-> 0]
  /\ txRows = <<>>
  /\ ttlCache = [k \in Keys |-> 0]
  /\ papersTable = {}
  /\ ledger = <<>>
  /\ shortlists = [k \in Keys |-> NoShortlist]

(***************************************************************************)
(* Selection Engine: selectDailyPaper / get_daily_paper                    *)
(***************************************************************************)

\* Papers a single date-fetch returns at most, invocations per behaviour,
\* date-fetches of a run that repeat an already fetched paper, and the
\* number of citation tables explored.
MaxPerDate == 2

MaxRuns == 3

MaxDups == 1

NumWorlds == 2

\* The numbers of papers the bibliographic provider holds for the window:
\* none, one, exactly a full shortlist, and as many as the window can return.
FreshCounts == {0, 1, TopN, LookbackYears * MaxPerDate}

\* The numbers of date-fetches of a run that fail: none, one, all.
FailCounts == {0, 1, LookbackYears}

NoWorld == [fresh |-> 0, cites |-> 0]

\* The citation count the citation provider reports for a paper.
CiteOf(w, id) ==
  CASE w = 1 -> (id * 3) % 4
    [] w = 2 -> 0
    [] OTHER -> id

IdleRun ==
  [key |-> <<"", NULL>>, raw |-> <<>>, fails |-> 0, calls |-> 0, top |-> <<>>, cands |-> 0, fetched |-> 0,
   written |-> 0, result |-> 0, status |-> "", hit |-> FALSE,
   rowsAtStart |-> <<>>, chosenAtStart |-> 0, tableAtStart |-> <<>>,
   ttlAtStart |-> 0, ledgerAtStart |-> 0,
   priorDone |-> FALSE, priorResult |-> 0]

NoResult == [set |-> FALSE, result |-> 0]

\* The state an earlier run for the key prior has left: two candidates
\* without citations, both on the shortlist, the second one chosen; the
\* in-memory cache of this process is empty.
PipelineInit ==
  \E prior \in Keys, fresh \in FreshCounts, w \in 1..NumWorlds :
    /\ world = [fresh |-> fresh, cites |-> w]
    /\ featured = <<Row(prior[1], prior[2], 1, 1), Row(prior[1], prior[2], 2, 2)>>
    /\ chosen = [k \in Keys |-> IF k = prior THEN 2 ELSE 0]
    /\ txRows = <<>>
    /\ ttlCache = [k \in Keys |-> 0]
    /\ papersTable = {Paper(1, 0), Paper(2, 0)}
    /\ ledger = <<[fetch_date |-> prior[1], category |-> prior[2],
                   papers_fetched |-> 2, status |-> "success",
                   error_message |-> NULL]>>
    /\ shortlists = [k \in Keys |->
                       IF k = prior
                         THEN [cands |-> 2, top |-> <<Paper(1, 0), Paper(2, 0)>>]
                         ELSE NoShortlist]
    /\ pc = "idle"
    /\ run = IdleRun
    /\ runs = 0
    /\ done = [k \in Keys |-> IF k = prior THEN [set |-> TRUE, result |-> 2]
                                            ELSE NoResult]

getCachedPaper_TtlOnly(key) == ttlCache[key]

\* The transient TTL cache first, then the canonical record of the Daily
\* Feature Store: the paper recorded as chosen when the key has rows.
getCachedPaper(key) ==
  IF ttlCache[key] # 0 THEN ttlCache[key]
  ELSE IF rowsFor(featured, key) # <<>> THEN chosen[key]
  ELSE 0

cacheHit_Never(key) == FALSE

\* if (cached) return cached
cacheHit(key) == getCachedPaper(key) # 0

\* The first completed call of a key and its result.
Completed(key, result) ==
  IF done[key].set THEN done
  ELSE [done EXCEPT ![key] = [set |-> TRUE, result |-> result]]

RunRecord(key, fetched, status, error) ==
  [fetch_date |-> key[1], category |-> key[2], papers_fetched |-> fetched,
   status |-> status, error_message |-> error]

record_OnePerKey(log, rec) ==
  SelectSeq(log, LAMBDA r : ~(r.fetch_date = rec.fetch_date
                               /\ r.category = rec.category)) \o <<rec>>

\* record(runDate, kind, category, papersFetched, status, error): a new row
\* of fetch_history, under a fresh id.
record(log, rec) == Append(log, rec)

fetchError_None(fails) == NULL

\* The error message of a run: the provider error of a failed date-fetch,
\* NULL when every date-fetch succeeded.
fetchError(fails) == IF fails > 0 THEN "provider error" ELSE NULL

\* Collapse by external identifier, keeping the first sighting.
RECURSIVE dedupe(_)
dedupe(ids) ==
  IF ids = <<>> THEN <<>>
  ELSE LET front == dedupe(SubSeq(ids, 1, Len(ids) - 1))
           last == ids[Len(ids)]
       IN IF last \in Range(front) THEN front ELSE Append(front, last)

\* Insert a paper, or update the citation count of the stored row with its
\* identifier.
upsert(table, p) == {q \in table : q.id # p.id} \cup {p}

RECURSIVE upsertAll(_, _)
upsertAll(table, ps) ==
  IF ps = <<>> THEN table
  ELSE upsertAll(upsert(table, ps[1]), Tail(ps))

runStatus_PartialFirst(fetched, fails) ==
  IF fails > 0 THEN "partial"
  ELSE IF fetched = 0 THEN "failed"
  ELSE "success"

papersToStore_ShortlistOnly(enriched, top) == top

\* Every enriched paper goes to the Paper Repository, on the shortlist or
\* not.
papersToStore(enriched, top) == enriched

\* "failed" when no paper was obtained, "partial" when a date-fetch failed,
\* "success" otherwise.
runStatus(fetched, fails) ==
  IF fetched = 0 THEN "failed"
  ELSE IF fails > 0 THEN "partial"
  ELSE "success"

\* 1. Check cache first; a hit returns the cached paper at once.
StartRun(key) ==
  /\ pc = "idle"
  /\ runs < MaxRuns
  /\ runs' = runs + 1
  /\ LET started == [IdleRun EXCEPT
                       !.key = key,
                       !.rowsAtStart = rowsFor(featured, key),
                       !.tableAtStart = featured,
                       !.chosenAtStart = chosen[key],
                       !.ttlAtStart = ttlCache[key],
                       !.ledgerAtStart = Len(ledger),
                       !.priorDone = done[key].set,
                       !.priorResult = done[key].result]
     IN IF cacheHit(key)
          THEN /\ run' = [started EXCEPT !.hit = TRUE,
                                         !.result = getCachedPaper(key)]
               /\ ttlCache' = [ttlCache EXCEPT ![key] = getCachedPaper(key)]
               /\ done' = Completed(key, getCachedPaper(key))
               /\ pc' = "done"
          ELSE /\ run' = started
               /\ pc' = "fetch"
               /\ UNCHANGED <<ttlCache, done>>
  /\ UNCHANGED <<featured, chosen, txRows, papersTable, ledger, shortlists,
                 world, notPipeline>>

\* The papers the bibliographic provider holds for the i-th date of the
\* window: the papers are numbered in window order, MaxPerDate to a date.
datePapers(i) ==
  [j \in 1..(Min(i * MaxPerDate, world.fresh) - Min((i - 1) * MaxPerDate, world.fresh))
     |-> (i - 1) * MaxPerDate + j]

RECURSIVE fetchDates(_, _)
fetchDates(from, to) ==
  IF from > to THEN <<>> ELSE datePapers(from) \o fetchDates(from + 1, to)

obtainedPapers_AbortOnFailure(failed) ==
  IF failed > 0 THEN <<>> ELSE fetchDates(1, LookbackYears)

\* The papers a window returns when its first failed date-fetches fail with a
\* provider error: the failed ones contribute nothing, the others go on.
obtainedPapers(failed) == fetchDates(failed + 1, LookbackYears)

\* The dates of the window for which the provider holds a paper.
datesUsed == (world.fresh + MaxPerDate - 1) \div MaxPerDate

\* 2.-3. One date-fetch for each date of the window.  The first failed of
\* them fail, dup of those that succeed and find nothing new return a paper
\* an earlier one already returned, the others return what the provider
\* holds for their date.
FetchWindow(dup, failed) ==
  /\ pc = "fetch"
  /\ failed <= LookbackYears
  /\ (IF failed > datesUsed THEN failed ELSE datesUsed) + dup <= LookbackYears
  /\ LET obtained == obtainedPapers(failed)
     IN /\ dup > 0 => obtained # <<>>
        /\ run' = [run EXCEPT
                     !.raw = obtained \o [i \in 1..dup |-> obtained[1]],
                     !.fails = failed,
                     !.calls = LookbackYears]
  /\ pc' = "enrich"
  /\ UNCHANGED <<storeVars, runs, done, world, notPipeline>>

\* No candidate at all: nothing to enrich, no shortlist is written.
NoCandidates ==
  /\ pc = "enrich"
  /\ dedupe(run.raw) = <<>>
  /\ run' = [run EXCEPT !.result = 0, !.status = runStatus(0, run.fails)]
  /\ ledger' = record(ledger, RunRecord(run.key, 0, runStatus(0, run.fails),
                                      fetchError(run.fails)))
  /\ done' = Completed(run.key, 0)
  /\ pc' = "done"
  /\ UNCHANGED <<featured, chosen, txRows, ttlCache, papersTable, shortlists,
                 runs, world, notPipeline>>

\* 4.-5. Deduplicate, enrich with the citation counts the provider reports
\* (a failed batch leaves the default count 0), store every paper and take
\* the top papers.
Enrich(ok) ==
  /\ pc = "enrich"
  /\ dedupe(run.raw) # <<>>
  /\ LET ids == dedupe(run.raw)
         enriched == [i \in 1..Len(ids) |->
                        Paper(ids[i], IF ok THEN CiteOf(world.cites, ids[i]) ELSE 0)]
         top == selectTopPapers(enriched, TopN)
     IN /\ papersTable' = upsertAll(papersTable, papersToStore(enriched, top))
        /\ run' = [run EXCEPT !.calls = @ + 1, !.cands = Len(ids),
                              !.fetched = Len(run.raw),
                              !.status = runStatus(Len(run.raw), run.fails),
                              !.top = top]
  /\ pc' = "persist"
  /\ UNCHANGED <<featured, chosen, txRows, ttlCache, ledger, shortlists, runs,
                 done, world, notPipeline>>

writeRow_Autocommit(row) ==
  /\ featured' = Append(featured, row)
  /\ txRows' = txRows

\* An INSERT inside the open transaction: visible to others at commit only.
writeRow(row) ==
  /\ txRows' = Append(txRows, row)
  /\ featured' = featured

\* 7. Write the next row of the shortlist.  A unique-constraint violation
\* rolls the transaction back and the call answers with the stored choice.
InsertRow ==
  /\ pc = "persist"
  /\ run.written < Len(run.top)
  /\ LET n == run.written + 1
         row == Row(run.key[1], run.key[2], run.top[n].id, n)
     IN IF uniqueViolation(featured \o txRows, row)
          THEN /\ txRows' = <<>>
               /\ featured' = featured
               /\ run' = [run EXCEPT !.result = chosen[run.key],
                                     !.status = "conflict"]
               /\ done' = Completed(run.key, chosen[run.key])
               /\ pc' = "done"
          ELSE /\ writeRow(row)
               /\ run' = [run EXCEPT !.written = n]
               /\ UNCHANGED <<done, pc>>
  /\ UNCHANGED <<chosen, ttlCache, papersTable, ledger, shortlists, runs,
                 world, notPipeline>>

\* 6.-7. Draw one of the top papers at random and commit: the rows and the
\* choice become visible together; the result is cached and the run logged.
Commit(pick) ==
  /\ pc = "persist"
  /\ run.written = Len(run.top)
  /\ pick \in 1..Len(run.top)
  /\ LET paper == run.top[pick].id
         status == run.status
     IN /\ featured' = featured \o txRows
        /\ txRows' = <<>>
        /\ chosen' = [chosen EXCEPT ![run.key] = paper]
        /\ ttlCache' = [ttlCache EXCEPT ![run.key] = paper]
        /\ ledger' = record(ledger, RunRecord(run.key, run.fetched, status,
                                          fetchError(run.fails)))
        /\ shortlists' = [shortlists EXCEPT
                            ![run.key] = [cands |-> run.cands, top |-> run.top]]
        /\ run' = [run EXCEPT !.result = paper]
        /\ done' = Completed(run.key, paper)
  /\ pc' = "done"
  /\ UNCHANGED <<papersTable, runs, world, notPipeline>>

\* The database fails during the shortlist write: the transaction is rolled
\* back and the run is logged as failed.
DbFail ==
  /\ pc = "persist"
  /\ txRows' = <<>>
  /\ ledger' = record(ledger, RunRecord(run.key, run.fetched, "failed",
                                      "database error"))
  /\ run' = [run EXCEPT !.result = 0, !.status = "error"]
  /\ pc' = "done"
  /\ UNCHANGED <<featured, chosen, ttlCache, papersTable, shortlists, runs,
                 done, world, notPipeline>>

\* The caller takes the result.
Return ==
  /\ pc = "done"
  /\ pc' = "idle"
  /\ run' = IdleRun
  /\ UNCHANGED <<storeVars, runs, done, world, notPipeline>>

\* The TTL of a cache entry elapses (or the process restarts).
ExpireCache(key) ==
  /\ ttlCache[key] # 0
  /\ ttlCache' = [ttlCache EXCEPT ![key] = 0]
  /\ UNCHANGED <<featured, chosen, txRows, papersTable, ledger, shortlists,
                 runVars, notPipeline>>

\* Rows and papers of the store explored on its own.
MaxRows == 3

MaxStorePaper == 2

\* The Daily Feature Store asked to persist one FeaturedSelection row: the
\* row is stored unless the unique constraint rejects it.
PersistRow(d, c, p, r) ==
  /\ pc = "idle"
  /\ Len(featured) < MaxRows
  /\ featured' = IF uniqueViolation(featured, Row(d, c, p, r))
                   THEN featured
                   ELSE Append(featured, Row(d, c, p, r))
  /\ UNCHANGED <<chosen, txRows, ttlCache, papersTable, ledger, shortlists,
                 runVars, notPipeline>>

PipelineIdle ==
  /\ StoreEmpty
  /\ pc = "idle"
  /\ run = IdleRun
  /\ runs = MaxRuns
  /\ done = [k \in Keys |-> NoResult]
  /\ world = NoWorld

(***************************************************************************)
(* Rate-Limited HTTP Client: RateLimiter                                   *)
(***************************************************************************)

ArxivMinTime == 3000

SemanticScholarMinTime == 1000

MaxConcurrent == 1

\* Requests submitted per behaviour (retries included), the step of the
\* clock and the time explored.
MaxRequests == 4

TickMs == 1000

MaxTime == 6000

Providers == {"arxiv", "semanticScholar"}

minTime(p) == IF p = "arxiv" THEN ArxivMinTime ELSE SemanticScholarMinTime

LimiterInit ==
  /\ now = 0
  /\ queue = [p \in Providers |-> <<>>]
  /\ inflight = [p \in Providers |-> {}]
  /\ lastStart = [p \in Providers |-> -1]
  /\ starts = [p \in Providers |-> <<>>]
  /\ nextReq = 1

LimiterIdle ==
  /\ now = 0
  /\ queue = [p \in Providers |-> <<>>]
  /\ inflight = [p \in Providers |-> {}]
  /\ lastStart = [p \in Providers |-> -1]
  /\ starts = [p \in Providers |-> <<>>]
  /\ nextReq = MaxRequests + 1

canStart_NoInterval(p) ==
  /\ queue[p] # <<>>
  /\ Cardinality(inflight[p]) < MaxConcurrent

canStart_AnyConcurrency(p) ==
  /\ queue[p] # <<>>
  /\ (lastStart[p] < 0 \/ now - lastStart[p] >= minTime(p))

\* A waiting request of p may be sent: fewer than maxConcurrent of p's
\* requests are being sent and minTime has passed since p's last send began.
canStart(p) ==
  /\ queue[p] # <<>>
  /\ Cardinality(inflight[p]) < MaxConcurrent
  /\ (lastStart[p] < 0 \/ now - lastStart[p] >= minTime(p))

nextInQueue_Newest(q) == Len(q)

\* The position in the queue of the request sent next: the oldest.
nextInQueue(q) == 1

RemoveAt(q, i) == SubSeq(q, 1, i - 1) \o SubSeq(q, i + 1, Len(q))

\* A caller submits a request to provider p.
Submit(p) ==
  /\ nextReq <= MaxRequests
  /\ queue' = [queue EXCEPT ![p] = Append(@, nextReq)]
  /\ nextReq' = nextReq + 1
  /\ UNCHANGED <<now, inflight, lastStart, starts, notLimiter>>

\* The limiter starts the send of a waiting request of p.
StartSend(p) ==
  /\ canStart(p)
  /\ LET i == nextInQueue(queue[p])
         id == queue[p][i]
     IN /\ queue' = [queue EXCEPT ![p] = RemoveAt(@, i)]
        /\ inflight' = [inflight EXCEPT ![p] = @ \cup {id}]
        /\ starts' = [starts EXCEPT ![p] = Append(@, [id |-> id, at |-> now])]
  /\ lastStart' = [lastStart EXCEPT ![p] = now]
  /\ UNCHANGED <<now, nextReq, notLimiter>>

\* A send of p ends; after a failure the retry attempt is submitted to the
\* same provider like any other request.
FinishSend(p, id, ok) ==
  /\ id \in inflight[p]
  /\ inflight' = [inflight EXCEPT ![p] = @ \ {id}]
  /\ IF ~ok /\ nextReq <= MaxRequests
       THEN /\ queue' = [queue EXCEPT ![p] = Append(@, nextReq)]
            /\ nextReq' = nextReq + 1
       ELSE UNCHANGED <<queue, nextReq>>
  /\ UNCHANGED <<now, lastStart, starts, notLimiter>>

Tick ==
  /\ now < MaxTime
  /\ now' = now + TickMs
  /\ UNCHANGED <<queue, inflight, lastStart, starts, nextReq, notLimiter>>

(***************************************************************************)
(* Orchestration: dailyPaperFetchJob and the exit code of the process      *)
(***************************************************************************)

\* Categories of one orchestration run explored at most.
MaxCategories == 4

ExitInterrupted == 130

AllCategories == <<"all", "cs.AI", "cs.LG", "math.GT", "cs.CV", "stat.ML">>

\* How the processing of one category can end: with one of the three
\* statuses, with an error raised out of selectDailyPaper (provider error
\* with retries exhausted, database error) or with its time budget exceeded.
CategoryOutcomes == {"success", "partial", "failed", "error", "timeout"}

\* The final status of a category: an error or an exceeded budget is
\* caught and recorded as "failed".
categoryStatus(outcome) ==
  IF outcome \in {"error", "timeout"} THEN "failed" ELSE outcome

jobContinues_RaiseOnError(outcome) == outcome \notin {"error", "timeout"}

\* try { ... } catch (error) { logFetchError(...) }: nothing is raised out of
\* the processing of a category.
jobContinues(outcome) == TRUE

jobRecord(category, outcome) ==
  [category |-> category, status |-> categoryStatus(outcome),
   error_message |-> IF outcome \in {"error", "timeout"} THEN outcome ELSE NULL]

exitCode_TwoOnAnyFailure(statuses) ==
  IF \A i \in 1..Len(statuses) : statuses[i] = "success" THEN 0
  ELSE IF \E i \in 1..Len(statuses) : statuses[i] = "failed" THEN 2
  ELSE 1

\* 0: all categories processed successfully; 2: no category processed
\* successfully; 1: some categories failed.
exitCode(statuses) ==
  IF \A i \in 1..Len(statuses) : statuses[i] = "success" THEN 0
  ELSE IF \A i \in 1..Len(statuses) : statuses[i] # "success" THEN 2
  ELSE 1

JobInit ==
  /\ \E n \in 1..MaxCategories : jobCats = SubSeq(AllCategories, 1, n)
  /\ jobPos = 1
  /\ jobOutcomes = <<>>
  /\ jobStatuses = <<>>
  /\ jobLedger = <<>>
  /\ jobPc = "running"
  /\ exitStatus = -1

JobIdle ==
  /\ jobCats = <<>>
  /\ jobPos = 1
  /\ jobOutcomes = <<>>
  /\ jobStatuses = <<>>
  /\ jobLedger = <<>>
  /\ jobPc = "idle"
  /\ exitStatus = -1

\* for (const category of categories): one category is processed.
ProcessCategory(outcome) ==
  /\ jobPc = "running"
  /\ jobPos <= Len(jobCats)
  /\ jobOutcomes' = Append(jobOutcomes, outcome)
  /\ IF jobContinues(outcome)
       THEN /\ jobStatuses' = Append(jobStatuses, categoryStatus(outcome))
            /\ jobLedger' = record(jobLedger, jobRecord(jobCats[jobPos], outcome))
            /\ jobPos' = jobPos + 1
            /\ jobPc' = "running"
            /\ UNCHANGED exitStatus
       ELSE /\ jobPc' = "crashed"
            /\ exitStatus' = 1
            /\ UNCHANGED <<jobStatuses, jobLedger, jobPos>>
  /\ UNCHANGED <<jobCats, notJob>>

\* Every category has been processed: the process exits.
ExitJob ==
  /\ jobPc = "running"
  /\ jobPos > Len(jobCats)
  /\ exitStatus' = exitCode(jobStatuses)
  /\ jobPc' = "exited"
  /\ UNCHANGED <<jobCats, jobPos, jobOutcomes, jobStatuses, jobLedger, notJob>>

\* SIGINT: the process exits with 130.
InterruptJob ==
  /\ jobPc = "running"
  /\ exitStatus' = ExitInterrupted
  /\ jobPc' = "interrupted"
  /\ UNCHANGED <<jobCats, jobPos, jobOutcomes, jobStatuses, jobLedger, notJob>>

(***************************************************************************)
(* Paper Repository: upsert into the papers table                          *)
(***************************************************************************)

\* Upsert calls per behaviour and external identifiers explored.
MaxUpserts == 3

MaxArxivId == 2

\* Last-updated dates of the incoming papers: an earlier and a later one.
UpdatedDates == {0, 1}

Callers == {1, 2}

PaperRow(serial, a, c, d, t) ==
  [id |-> serial, arxiv_id |-> a, citation_count |-> c, updated_date |-> d,
   created_at |-> t]

NoUpsert == [pc |-> "idle", arxiv_id |-> 0, citation_count |-> 0,
             updated_date |-> 0, found |-> FALSE]

NoLastUpsert == [arxiv_id |-> 0, citation_count |-> 0, updated_date |-> 0,
                 before |-> {}]

\* arxiv_id VARCHAR(50) UNIQUE NOT NULL
hasPaper(rows, a) == \E r \in rows : r.arxiv_id = a

updatePaper_ReplaceRow(rows, a, c, d, serial, t) ==
  {r \in rows : r.arxiv_id # a} \cup {PaperRow(serial, a, c, d, t)}

\* The row of a is updated: citation count and last-updated date are set,
\* the rest of the row (id, created_at) stays.
updatePaper(rows, a, c, d, serial, t) ==
  {IF r.arxiv_id = a
     THEN [r EXCEPT !.citation_count = c, !.updated_date = d]
     ELSE r : r \in rows}

insertPaper(rows, a, c, d, serial, t) ==
  rows \cup {PaperRow(serial, a, c, d, t)}

RepoInit ==
  /\ repoRows = {}
  /\ repoSerial = 1
  /\ repoClock = 0
  /\ up = [w \in Callers |-> NoUpsert]
  /\ upCalls = 0
  /\ lastUpsert = NoLastUpsert

RepoIdle ==
  /\ repoRows = {}
  /\ repoSerial = 1
  /\ repoClock = 0
  /\ up = [w \in Callers |-> NoUpsert]
  /\ upCalls = MaxUpserts
  /\ lastUpsert = NoLastUpsert

\* upsert(paper): the caller looks the identifier up.  Every call starts at a
\* later CURRENT_TIMESTAMP than the one before.
FindPaper(w, a, c, d) ==
  /\ up[w].pc = "idle"
  /\ upCalls < MaxUpserts
  /\ upCalls' = upCalls + 1
  /\ up' = [up EXCEPT ![w] = [pc |-> "write", arxiv_id |-> a,
                              citation_count |-> c, updated_date |-> d,
                              found |-> hasPaper(repoRows, a)]]
  /\ repoClock' = repoClock + 1
  /\ UNCHANGED <<repoRows, repoSerial, lastUpsert, notRepo>>

\* The caller writes: an UPDATE when it found the paper, an INSERT when it
\* did not.  An INSERT of an identifier another caller has stored meanwhile
\* conflicts on UNIQUE(arxiv_id) and becomes the update of the stored row.
WritePaper(w) ==
  /\ up[w].pc = "write"
  /\ LET a == up[w].arxiv_id
         c == up[w].citation_count
         d == up[w].updated_date
     IN /\ IF up[w].found \/ hasPaper(repoRows, a)
             THEN /\ repoRows' =
                       updatePaper(repoRows, a, c, d, repoSerial, repoClock)
                  /\ repoSerial' = IF up[w].found THEN repoSerial
                                                  ELSE repoSerial + 1
             ELSE /\ repoRows' =
                       insertPaper(repoRows, a, c, d, repoSerial, repoClock)
                  /\ repoSerial' = repoSerial + 1
        /\ lastUpsert' = [arxiv_id |-> a, citation_count |-> c,
                          updated_date |-> d, before |-> repoRows]
  /\ up' = [up EXCEPT ![w] = NoUpsert]
  /\ UNCHANGED <<repoClock, upCalls, notRepo>>

(***************************************************************************)
(* Selection Engine: two interleaved selectDailyPaper invocations          *)
(***************************************************************************)

Invokers == {1, 2}

\* The shortlists (paper ids by rank) an invocation can arrive at: what the
\* providers answer differs from one invocation to the other.
RaceShortlists == {<<1, 2>>, <<2, 3>>, <<3, 4>>}

NoInvocation == [pc |-> "off", top |-> <<>>, tx |-> <<>>, result |-> 0,
                 status |-> "none"]

NewInvocation == [NoInvocation EXCEPT !.pc = "start"]

RaceInit ==
  /\ raceKey \in Keys
  /\ inv = [w \in Invokers |-> NewInvocation]

RaceIdle ==
  /\ raceKey = <<"2024-06-12", NULL>>
  /\ inv = [w \in Invokers |-> NoInvocation]

\* 1. Check cache first.
CheckCache(w) ==
  /\ inv[w].pc = "start"
  /\ inv' = [inv EXCEPT ![w] =
               IF cacheHit(raceKey)
                 THEN [@ EXCEPT !.pc = "done", !.status = "hit",
                                !.result = getCachedPaper(raceKey)]
                 ELSE [@ EXCEPT !.pc = "compute"]]
  /\ UNCHANGED <<storeVars, raceKey, notRace>>

\* 2.-5. Window, fetch, enrich and rank, up to the shortlist.
ComputeShortlist(w, top) ==
  /\ inv[w].pc = "compute"
  /\ inv' = [inv EXCEPT ![w] = [@ EXCEPT !.pc = "persist", !.top = top]]
  /\ UNCHANGED <<storeVars, raceKey, notRace>>

\* The row is in the open transaction of another invocation: the INSERT
\* waits for that transaction to end.
lockedByOther(w, row) ==
  \E o \in Invokers \ {w} : uniqueViolation(inv[o].tx, row)

\* 7. Write the next row of the shortlist into the invocation's transaction.
\* A unique-constraint violation rolls the transaction back and the call
\* answers with the stored choice.
InsertRowOf(w) ==
  /\ inv[w].pc = "persist"
  /\ Len(inv[w].tx) < Len(inv[w].top)
  /\ LET n == Len(inv[w].tx) + 1
         row == Row(raceKey[1], raceKey[2], inv[w].top[n], n)
     IN /\ ~lockedByOther(w, row)
        /\ inv' = [inv EXCEPT ![w] =
                     IF uniqueViolation(featured \o inv[w].tx, row)
                       THEN [@ EXCEPT !.pc = "done", !.tx = <<>>,
                                      !.status = "conflict",
                                      !.result = chosen[raceKey]]
                       ELSE [@ EXCEPT !.tx = Append(@, row)]]
  /\ UNCHANGED <<storeVars, raceKey, notRace>>

\* 6.-7. Draw one of the top papers and commit.
CommitOf(w, pick) ==
  /\ inv[w].pc = "persist"
  /\ Len(inv[w].tx) = Len(inv[w].top)
  /\ pick \in 1..Len(inv[w].top)
  /\ featured' = featured \o inv[w].tx
  /\ chosen' = [chosen EXCEPT ![raceKey] = inv[w].top[pick]]
  /\ ttlCache' = [ttlCache EXCEPT ![raceKey] = inv[w].top[pick]]
  /\ inv' = [inv EXCEPT ![w] = [@ EXCEPT !.pc = "done", !.tx = <<>>,
                                         !.status = "success",
                                         !.result = inv[w].top[pick]]]
  /\ UNCHANGED <<txRows, papersTable, ledger, shortlists, raceKey, notRace>>

(***************************************************************************)
(* Read side: useTodayPaper / useCategoryPaper and the pages that render   *)
(***************************************************************************)

\* Papers the read side can be given, and fetches of one page visit.
MaxPagePaper == 2

MaxFetches == 3

\* The explicit "no FeaturedSelection" answer of the read API: a 404, or a
\* 200 whose body carries no paper.
NotFoundForms == {200, 404}

\* What a fetch that does not reach the API, or reaches a failing one,
\* rejects with.
FetchFailures == {"network", "api500"}

\* GET /api/paper/today (or /category/:category) for a key whose selection
\* is the paper sel (0: no FeaturedSelection exists).
readApi(sel, form) ==
  IF sel # 0 THEN [status |-> 200, paper |-> sel]
  ELSE [status |-> form, paper |-> 0]

\* validatePaper(r.paper) && typeof r.featuredDate === 'string'
validateTodayPaperResponse(response) == response.paper # 0

\* apiClient.get rejects on a status outside 2xx; a body that fails the
\* validation is thrown as a ValidationError; otherwise the body is returned.
todayPaperQuery(answer) ==
  IF answer.status # 200
    THEN [ok |-> FALSE, data |-> 0, error |-> "api404"]
  ELSE IF ~validateTodayPaperResponse(answer)
    THEN [ok |-> FALSE, data |-> 0, error |-> "validation"]
  ELSE [ok |-> TRUE, data |-> answer.paper, error |-> "none"]

\* useSWR: a request is running and no data has been loaded.
isLoading == swrValidating /\ swrData = 0

\* The content states HomePage renders.
HomePage ==
  (IF isLoading THEN {"loading"} ELSE {})
    \cup (IF swrError # "none" /\ ~isLoading THEN {"error"} ELSE {})
    \cup (IF swrData = 0 /\ swrError = "none" /\ ~isLoading
            THEN {"empty"} ELSE {})
    \cup (IF swrData # 0 /\ ~isLoading THEN {"paper"} ELSE {})

\* The content state CategoryPageContent returns ("noPapers" is its
\* ErrorState component: "No Papers Found", without a retry).
CategoryPageContent ==
  IF isLoading THEN {"loading"}
  ELSE IF swrError # "none" \/ swrData = 0 THEN {"noPapers"}
  ELSE {"paper"}

\* The page mounts: useSWR starts the first request.
PageInit ==
  /\ selection \in 0..MaxPagePaper
  /\ swrData = 0
  /\ swrError = "none"
  /\ swrValidating = TRUE
  /\ fetches = 1
  /\ lastAnswer = "none"

PageIdle ==
  /\ selection = 0
  /\ swrData = 0
  /\ swrError = "none"
  /\ swrValidating = FALSE
  /\ fetches = MaxFetches
  /\ lastAnswer = "none"

\* The read API answers the running request: useSWR stores the data and
\* clears the error when the fetcher resolves, stores the error and keeps
\* the data it has when the fetcher rejects.
FetchAnswered(form) ==
  /\ swrValidating
  /\ LET q == todayPaperQuery(readApi(selection, form))
     IN /\ swrData' = IF q.ok THEN q.data ELSE swrData
        /\ swrError' = q.error
  /\ swrValidating' = FALSE
  /\ lastAnswer' = IF selection = 0 THEN "notFound" ELSE "paper"
  /\ UNCHANGED <<selection, fetches, notPage>>

\* The running request fails: no answer, or a failing server.
FetchFailed(kind) ==
  /\ swrValidating
  /\ swrError' = kind
  /\ swrValidating' = FALSE
  /\ lastAnswer' = "failed"
  /\ UNCHANGED <<selection, swrData, fetches, notPage>>

\* mutate(), focus, reconnect, refreshInterval or an error retry.
Revalidate ==
  /\ ~swrValidating
  /\ fetches < MaxFetches
  /\ swrValidating' = TRUE
  /\ fetches' = fetches + 1
  /\ UNCHANGED <<selection, swrData, swrError, lastAnswer, notPage>>

\* The key's selection changes: the daily job writes it, or a day without
\* one begins.
SelectionChanges(p) ==
  /\ p # selection
  /\ selection' = p
  /\ UNCHANGED <<swrData, swrError, swrValidating, fetches, lastAnswer, notPage>>

(***************************************************************************)
(* historyQuery: validateHistoryParams and the request it makes            *)
(***************************************************************************)

DEFAULT_PAGE_SIZE == 20

MAX_PAGE_SIZE == 100

\* Largest page number and longest category text explored; limits are
\* explored from -1 to MaxLimit.
MaxPage == 2

MaxLimit == 101

MaxCategoryLen == 2

\* A JavaScript value given for page or limit: undefined, or a number that
\* is the integer v or (frac) lies between v and v + 1.
UndefinedNumber == [kind |-> "undefined", v |-> 0, frac |-> FALSE]

Number(v, frac) == [kind |-> "number", v |-> v, frac |-> frac]

\* A value given for category: undefined, or a string of spaces and letters.
UndefinedString == [kind |-> "undefined", s |-> <<>>]

String(s) == [kind |-> "string", s |-> s]

Characters == {" ", "a"}

Strings == UNION {[1..n -> Characters] : n \in 0..MaxCategoryLen}

PageValues ==
  {UndefinedNumber} \cup {Number(v, f) : v \in -1..MaxPage, f \in BOOLEAN}

LimitValues ==
  {UndefinedNumber} \cup {Number(v, f) : v \in -1..MaxLimit, f \in BOOLEAN}

CategoryValues == {UndefinedString} \cup {String(s) : s \in Strings}

\* The params argument left out.
NoParams == [given |-> FALSE, page |-> UndefinedNumber,
             limit |-> UndefinedNumber, category |-> UndefinedString]

HistoryParams ==
  {NoParams} \cup
  {[given |-> TRUE, page |-> p, limit |-> l, category |-> c] :
     p \in PageValues, l \in LimitValues, c \in CategoryValues}

\* Number.isInteger
isInteger(x) == x.kind = "number" /\ ~x.frac

\* x < n for a number x (v <= x < v + 1) and an integer n
lessThan(x, n) == x.v < n

\* x > n
greaterThan(x, n) == x.v > n \/ (x.v = n /\ x.frac)

\* String.prototype.trim
RECURSIVE trimStart(_)
trimStart(s) ==
  IF s # <<>> /\ Head(s) = " " THEN trimStart(Tail(s)) ELSE s

RECURSIVE trimEnd(_)
trimEnd(s) ==
  IF s # <<>> /\ s[Len(s)] = " " THEN trimEnd(SubSeq(s, 1, Len(s) - 1)) ELSE s

trim(s) == trimEnd(trimStart(s))

Thrown(field) == [isValidationError |-> TRUE, field |-> field]

NoError == [isValidationError |-> FALSE, field |-> "none"]

validateHistoryParams_LimitUnchecked(params) ==
  IF ~params.given THEN [ok |-> TRUE, error |-> NoError, validated |-> NoParams]
  ELSE IF params.page.kind # "undefined"
          /\ (~isInteger(params.page) \/ lessThan(params.page, 1))
    THEN [ok |-> FALSE, error |-> Thrown("page"), validated |-> NoParams]
  ELSE IF params.category.kind # "undefined"
          /\ Len(trim(params.category.s)) = 0
    THEN [ok |-> FALSE, error |-> Thrown("category"), validated |-> NoParams]
  ELSE [ok |-> TRUE, error |-> NoError,
        validated |-> [params EXCEPT
                         !.category = IF @.kind = "undefined" THEN @
                                      ELSE String(trim(@.s))]]

\* The first bad field throws; the fields given are copied, the category
\* trimmed.
validateHistoryParams(params) ==
  IF ~params.given THEN [ok |-> TRUE, error |-> NoError, validated |-> NoParams]
  ELSE IF params.page.kind # "undefined"
          /\ (~isInteger(params.page) \/ lessThan(params.page, 1))
    THEN [ok |-> FALSE, error |-> Thrown("page"), validated |-> NoParams]
  ELSE IF params.limit.kind # "undefined"
          /\ (\/ ~isInteger(params.limit)
              \/ lessThan(params.limit, 1)
              \/ greaterThan(params.limit, MAX_PAGE_SIZE))
    THEN [ok |-> FALSE, error |-> Thrown("limit"), validated |-> NoParams]
  ELSE IF params.category.kind # "undefined"
          /\ Len(trim(params.category.s)) = 0
    THEN [ok |-> FALSE, error |-> Thrown("category"), validated |-> NoParams]
  ELSE [ok |-> TRUE, error |-> NoError,
        validated |-> [params EXCEPT
                         !.category = IF @.kind = "undefined" THEN @
                                      ELSE String(trim(@.s))]]

\* JavaScript truthiness of the validated fields.
truthyNumber(x) == x.kind = "number" /\ (x.v # 0 \/ x.frac)

truthyString(x) == x.kind = "string" /\ x.s # <<>>

\* { page: validated.page || 1, limit: validated.limit || DEFAULT_PAGE_SIZE,
\*   ...(validated.category && { category: validated.category }) }
queryParams(validated) ==
  LET page == IF truthyNumber(validated.page) THEN validated.page.v ELSE 1
      limit == IF truthyNumber(validated.limit) THEN validated.limit.v
               ELSE DEFAULT_PAGE_SIZE
  IN IF truthyString(validated.category)
       THEN [page |-> page, limit |-> limit, category |-> validated.category.s]
       ELSE [page |-> page, limit |-> limit]

HistoryInit ==
  /\ hqParams \in HistoryParams
  /\ hqPc = "called"
  /\ hqRequests = <<>>
  /\ hqError = NoError

HistoryIdle ==
  /\ hqParams = NoParams
  /\ hqPc = "off"
  /\ hqRequests = <<>>
  /\ hqError = NoError

\* historyQuery(params) up to the awaited apiClient.get
HistoryQuery ==
  /\ hqPc = "called"
  /\ LET r == validateHistoryParams(hqParams)
     IN IF r.ok
          THEN /\ hqRequests' = Append(hqRequests,
                                       [url |-> "/api/paper/history",
                                        params |-> queryParams(r.validated)])
               /\ hqPc' = "awaiting"
               /\ UNCHANGED hqError
          ELSE /\ hqError' = r.error
               /\ hqPc' = "thrown"
               /\ UNCHANGED hqRequests
  /\ UNCHANGED <<hqParams, notHistory>>

\* The request settles: the body is returned when validateHistoryResponse
\* accepts it; a rejected request or an invalid body is thrown.
HistoryResponse(outcome) ==
  /\ hqPc = "awaiting"
  /\ hqPc' = IF outcome = "valid" THEN "returned" ELSE "thrown"
  /\ hqError' = IF outcome = "invalid" THEN Thrown("response") ELSE NoError
  /\ UNCHANGED <<hqParams, hqRequests, notHistory>>

(***************************************************************************)
(* Selection Engine: the date-fetches of one window, in any order          *)
(***************************************************************************)

\* Dates of the window explored with their fetches in every order; the
\* provider holds one paper for each date, paper d for date d.
MaxOrderDates == 3

OrderDates == 1..MaxOrderDates

allCollected_AnyResult(pending, running) == running = {}

\* const papers = await fetchPapersFromDateRanges(dateRanges, category): the
\* steps after it run when every date-fetch has settled.
allCollected(pending, running) == pending = {} /\ running = {}

\* The window's papers in the order of the dates, for the dates whose fetch
\* succeeded.
RECURSIVE inWindowOrder(_, _)
inWindowOrder(d, failed) ==
  IF d > MaxOrderDates THEN <<>>
  ELSE (IF d \in failed THEN <<>> ELSE <<d>>) \o inWindowOrder(d + 1, failed)

\* 4. Enrich: the citation count of every collected paper.
enrichWithCitations(ids) ==
  [i \in 1..Len(ids) |-> Paper(ids[i], ordCites[ids[i]])]

OrderInit ==
  /\ ordCites \in [OrderDates -> 0..MaxCitations]
  /\ ordPending = OrderDates
  /\ ordInflight = {}
  /\ ordFailed = {}
  /\ ordRaw = <<>>
  /\ ordPc = "fetch"
  /\ ordSettledAtRank = 0
  /\ ordShortlist = <<>>

OrderIdle ==
  /\ ordCites = [d \in OrderDates |-> 0]
  /\ ordPending = {}
  /\ ordInflight = {}
  /\ ordFailed = {}
  /\ ordRaw = <<>>
  /\ ordPc = "off"
  /\ ordSettledAtRank = 0
  /\ ordShortlist = <<>>

\* 3. The fetch of one date of the window starts.
StartDateFetch(d) ==
  /\ ordPc = "fetch"
  /\ d \in ordPending
  /\ ordPending' = ordPending \ {d}
  /\ ordInflight' = ordInflight \cup {d}
  /\ UNCHANGED <<ordCites, ordFailed, ordRaw, ordPc, ordSettledAtRank,
                 ordShortlist, notOrder>>

\* The fetch of a date settles: its papers are accumulated, or it fails and
\* contributes nothing.
SettleDateFetch(d, ok) ==
  /\ ordPc = "fetch"
  /\ d \in ordInflight
  /\ ordInflight' = ordInflight \ {d}
  /\ ordRaw' = IF ok THEN Append(ordRaw, d) ELSE ordRaw
  /\ ordFailed' = IF ok THEN ordFailed ELSE ordFailed \cup {d}
  /\ UNCHANGED <<ordCites, ordPending, ordPc, ordSettledAtRank, ordShortlist,
                 notOrder>>

\* 4.-5. Enrich and rank what was collected.
RankCollected ==
  /\ ordPc = "fetch"
  /\ allCollected(ordPending, ordInflight)
  /\ ordSettledAtRank' = MaxOrderDates - Cardinality(ordPending \cup ordInflight)
  /\ ordShortlist' = selectTopPapers(enrichWithCitations(ordRaw), TopN)
  /\ ordPc' = "ranked"
  /\ UNCHANGED <<ordCites, ordPending, ordInflight, ordFailed, ordRaw, notOrder>>

\* 7. The shortlist is written.
PersistShortlist ==
  /\ ordPc = "ranked"
  /\ ordPc' = "persisted"
  /\ UNCHANGED <<ordCites, ordPending, ordInflight, ordFailed, ordRaw,
                 ordSettledAtRank, ordShortlist, notOrder>>

(***************************************************************************)
(* backend/run_daily_job.sh                                                *)
(***************************************************************************)

\* Largest exit code of daily_job.py explored.
MaxExitCode == 131

\* set -e: a simple command that ends with a non-zero status ends the shell.
errexit(status) == status # 0

\* case $job_exit_code in ... esac
completionLine(code) ==
  IF code = 0 THEN "completed successfully"
  ELSE IF code = 1 THEN "completed with partial failures"
  ELSE IF code = 2 THEN "failed completely"
  ELSE IF code = ExitInterrupted THEN "was interrupted by user"
  ELSE "exited with unexpected code"

StatusLine(code) == [line |-> completionLine(code), duration |-> TRUE]

PlainLine(text) == [line |-> text, duration |-> FALSE]

WrapperInit ==
  /\ shCode \in 0..MaxExitCode
  /\ shPc = "start"
  /\ shLog = <<>>
  /\ shStatus = 0
  /\ shExit = -1

WrapperIdle ==
  /\ shCode = 0
  /\ shPc = "off"
  /\ shLog = <<>>
  /\ shStatus = 0
  /\ shExit = -1

\* main up to the call of the job: the directory, the virtual environment,
\* the script and the modules are checked; a failed check logs and exits 1.
PrepareJob(ok) ==
  /\ shPc = "start"
  /\ IF ok
       THEN /\ shLog' = shLog \o <<PlainLine("Starting"), PlainLine("Executing daily job")>>
            /\ shPc' = "run"
            /\ UNCHANGED shStatus
       ELSE /\ shLog' = shLog \o <<PlainLine("Starting"), PlainLine("ERROR: check failed")>>
            /\ shStatus' = 1
            /\ shPc' = "trap"
  /\ UNCHANGED <<shCode, shExit, notWrapper>>

\* python3 "${PYTHON_SCRIPT}" "$@": a simple command of main, which is not
\* called in a condition, so errexit applies to it.
RunPython ==
  /\ shPc = "run"
  /\ shStatus' = shCode
  /\ shPc' = IF errexit(shCode) THEN "trap" ELSE "logStatus"
  /\ UNCHANGED <<shCode, shLog, shExit, notWrapper>>

\* job_exit_code=$?; the duration; the case statement; return $job_exit_code
LogCompletion ==
  /\ shPc = "logStatus"
  /\ shLog' = Append(shLog, StatusLine(shStatus))
  /\ shPc' = "trap"
  /\ UNCHANGED <<shCode, shStatus, shExit, notWrapper>>

\* trap cleanup EXIT
Cleanup ==
  /\ shPc = "trap"
  /\ shLog' = IF shStatus # 0
                THEN Append(shLog, PlainLine("ERROR: Script exited with code"))
                ELSE shLog
  /\ shExit' = shStatus
  /\ shPc' = "exited"
  /\ UNCHANGED <<shCode, shStatus, notWrapper>>

(***************************************************************************)
(* ApiClient.calculateRetryDelay for every attempt and base delay          *)
(***************************************************************************)

\* Attempt numbers explored, and base delays: multiples of BaseDelayStep up
\* to MaxBaseDelaySteps of them.
MaxDelayAttempt == 7

MaxBaseDelaySteps == 8

BaseDelayStep == 250

BaseDelays == {k * BaseDelayStep : k \in 0..MaxBaseDelaySteps} \cup {1, 7}

DelayInit ==
  /\ dlBase \in BaseDelays
  /\ dlAttempt \in 1..MaxDelayAttempt
  /\ dlDelay = -1

DelayIdle ==
  /\ dlBase = 0
  /\ dlAttempt = 0
  /\ dlDelay = -1

\* calculateRetryDelay(attempt) with config.api.retryDelay = dlBase and one
\* value of Math.random()
ComputeDelay(jitter) ==
  /\ dlAttempt >= 1
  /\ dlDelay = -1
  /\ dlDelay' = delayFromBase(dlBase, dlAttempt, jitter)
  /\ UNCHANGED <<dlBase, dlAttempt, notDelay>>

(***************************************************************************)
(* FavoritesProvider (components/features/favorites.tsx)                   *)
(***************************************************************************)

MAX_FAVORITES == 100

\* Paper ids the handlers are called with, notes values, and the number of
\* state updates React may hold queued before it renders again.
MaxFavPaper == 2

MaxFavUpdates == 2

FavPapers == 1..MaxFavPaper

FavNotes == {0, 1}

\* A FavoritePaper entry: the paper's id and the notes given with it.
FavoritePaper(paperId, notes) == [id |-> paperId, notes |-> notes]

\* A stored list of MAX_FAVORITES - 1 favorites of other papers, each once.
StoredFavorites ==
  [i \in 1..(MAX_FAVORITES - 1) |-> FavoritePaper(MaxFavPaper + 1 + i, 0)]

\* favorites.some(fav => fav.id === paperId), on the rendered list
isFavorite(paperId) ==
  \E i \in 1..Len(favorites) : favorites[i].id = paperId

\* The updater functions handed to setFavorites, applied to prev.
applyUpdate(u, prev) ==
  CASE u.op = "add" -> <<FavoritePaper(u.id, u.notes)>> \o prev
    [] u.op = "remove" -> SelectSeq(prev, LAMBDA fav : fav.id # u.id)
    [] u.op = "update" ->
         [i \in 1..Len(prev) |->
            IF prev[i].id = u.id THEN [prev[i] EXCEPT !.notes = u.notes]
                                 ELSE prev[i]]
    [] OTHER -> <<>>

RECURSIVE applyUpdates(_, _)
applyUpdates(updates, prev) ==
  IF updates = <<>> THEN prev
  ELSE applyUpdates(Tail(updates), applyUpdate(Head(updates), prev))

\* Mounted and loaded: favorites holds what localStorage held.
FavoritesInit ==
  /\ favorites \in {<<>>, StoredFavorites}
  /\ favQueue = <<>>
  /\ favStored = favorites

FavoritesIdle ==
  /\ favorites = <<>>
  /\ favQueue = <<>>
  /\ favStored = <<>>

\* addFavorite(paper, tags, notes): both tests read the rendered list.
addFavorite(paperId, notes) ==
  /\ Len(favQueue) < MaxFavUpdates
  /\ IF Len(favorites) >= MAX_FAVORITES \/ isFavorite(paperId)
       THEN favQueue' = favQueue
       ELSE favQueue' =
              Append(favQueue, [op |-> "add", id |-> paperId, notes |-> notes])
  /\ UNCHANGED <<favorites, favStored, notFavorites>>

removeFavorite(paperId) ==
  /\ Len(favQueue) < MaxFavUpdates
  /\ favQueue' = Append(favQueue, [op |-> "remove", id |-> paperId, notes |-> 0])
  /\ UNCHANGED <<favorites, favStored, notFavorites>>

updateFavorite(paperId, notes) ==
  /\ Len(favQueue) < MaxFavUpdates
  /\ favQueue' =
       Append(favQueue, [op |-> "update", id |-> paperId, notes |-> notes])
  /\ UNCHANGED <<favorites, favStored, notFavorites>>

\* clearAllFavorites(): setFavorites([]) when the user confirms
clearAllFavorites(confirmed) ==
  /\ Len(favQueue) < MaxFavUpdates
  /\ favQueue' = IF confirmed
                   THEN Append(favQueue, [op |-> "clear", id |-> 0, notes |-> 0])
                   ELSE favQueue
  /\ UNCHANGED <<favorites, favStored, notFavorites>>

\* React renders: the queued updaters run in order on the state, and the
\* save effect writes the new list to localStorage.
RenderFavorites ==
  /\ favQueue # <<>>
  /\ favorites' = applyUpdates(favQueue, favorites)
  /\ favStored' = applyUpdates(favQueue, favorites)
  /\ favQueue' = <<>>
  /\ UNCHANGED notFavorites

(***************************************************************************)
(* useFavoritePapers (lib/api/hooks.ts)                                    *)
(***************************************************************************)

\* Paper ids the hook is called with, and the number of state updates React
\* may hold queued before it renders again.
MaxHookPaper == 3

MaxHookUpdates == 2

HookPapers == 1..MaxHookPaper

\* A JavaScript Set<string> is kept as the sequence of its members in
\* insertion order, which is what Array.from and the spread yield.
setHas(set, paperId) == \E i \in 1..Len(set) : set[i] = paperId

\* new Set([...prev, paperId])
setAdd(set, paperId) ==
  IF setHas(set, paperId) THEN set ELSE Append(set, paperId)

\* newFavorites.delete(paperId)
setDelete(set, paperId) == SelectSeq(set, LAMBDA id : id # paperId)

RECURSIVE newSet(_)
\* new Set(favArray)
newSet(favArray) ==
  IF favArray = <<>> THEN <<>>
  ELSE LET init == newSet(SubSeq(favArray, 1, Len(favArray) - 1))
       IN setAdd(init, favArray[Len(favArray)])

applyHookUpdate(u, prev) ==
  IF u.op = "add" THEN setAdd(prev, u.id) ELSE setDelete(prev, u.id)

RECURSIVE applyHookUpdates(_, _)
applyHookUpdates(updates, prev) ==
  IF updates = <<>> THEN prev
  ELSE applyHookUpdates(Tail(updates), applyHookUpdate(Head(updates), prev))

\* Mounted, and the load effect has run on what localStorage held.
HookInit ==
  /\ fpStored \in {<<>>, <<1>>}
  /\ fpFavorites = newSet(fpStored)
  /\ fpQueue = <<>>

HookIdle ==
  /\ fpStored = <<>>
  /\ fpFavorites = <<>>
  /\ fpQueue = <<>>

\* addFavorite(paperId): the new array is built from the rendered set
hookAddFavorite(paperId) ==
  /\ Len(fpQueue) < MaxHookUpdates
  /\ fpQueue' = Append(fpQueue, [op |-> "add", id |-> paperId])
  /\ fpStored' = Append(fpFavorites, paperId)
  /\ UNCHANGED <<fpFavorites, notHook>>

\* removeFavorite(paperId)
hookRemoveFavorite(paperId) ==
  /\ Len(fpQueue) < MaxHookUpdates
  /\ fpQueue' = Append(fpQueue, [op |-> "remove", id |-> paperId])
  /\ fpStored' = SelectSeq(fpFavorites, LAMBDA id : id # paperId)
  /\ UNCHANGED <<fpFavorites, notHook>>

\* toggleFavorite(paperId)
toggleFavorite(paperId) ==
  IF setHas(fpFavorites, paperId) THEN hookRemoveFavorite(paperId)
                                  ELSE hookAddFavorite(paperId)

\* React renders: the queued updaters run in order on the state.
RenderHook ==
  /\ fpQueue # <<>>
  /\ fpFavorites' = applyHookUpdates(fpQueue, fpFavorites)
  /\ fpQueue' = <<>>
  /\ UNCHANGED <<fpStored, notHook>>

(***************************************************************************)
(* InfiniteScroll (components/features/infinite-scroll.tsx)                *)
(***************************************************************************)

\* loadMore promises that may be pending at once, and the number of state
\* updates React may hold queued before it renders again.
MaxOutstanding == 3

MaxTriggerUpdates == 3

\* The value the queued setIsLoadingTriggered calls leave.
lastUpdate(updates, current) ==
  IF updates = <<>> THEN current ELSE updates[Len(updates)]

\* hasMore && !isLoading && !isLoadingTriggered, on the rendered values
mayTrigger == hasMore /\ ~scIsLoading /\ ~isLoadingTriggered

\* setIsLoadingTriggered(true); loadMore().finally(...)
triggerLoad ==
  /\ Len(scUpdates) < MaxTriggerUpdates
  /\ scOutstanding < MaxOutstanding
  /\ scUpdates' = Append(scUpdates, TRUE)
  /\ scOutstanding' = scOutstanding + 1
  /\ scSettled' = "none"

\* Mounted with the props of the first render.
ScrollInit ==
  /\ fallbackToButton \in BOOLEAN
  /\ hasMore \in BOOLEAN
  /\ scIsLoading \in BOOLEAN
  /\ isLoadingTriggered = FALSE
  /\ scUpdates = <<>>
  /\ scOutstanding = 0
  /\ scSettled = "none"

ScrollIdle ==
  /\ fallbackToButton = TRUE
  /\ hasMore = FALSE
  /\ scIsLoading = FALSE
  /\ isLoadingTriggered = FALSE
  /\ scUpdates = <<>>
  /\ scOutstanding = 0
  /\ scSettled = "none"

\* handleScroll(e): pastThreshold is scrollPercentage >= threshold
handleScroll(pastThreshold) ==
  /\ IF pastThreshold /\ mayTrigger
       THEN triggerLoad
       ELSE UNCHANGED <<scUpdates, scOutstanding, scSettled>>
  /\ UNCHANGED <<fallbackToButton, hasMore, scIsLoading, isLoadingTriggered,
                 notScroll>>

\* The IntersectionObserver callback set up by the effect of the last render
\* (the sentinel is rendered only without the button and with hasMore).
observerCallback(isIntersecting) ==
  /\ ~fallbackToButton
  /\ hasMore
  /\ IF isIntersecting /\ mayTrigger
       THEN triggerLoad
       ELSE UNCHANGED <<scUpdates, scOutstanding, scSettled>>
  /\ UNCHANGED <<fallbackToButton, hasMore, scIsLoading, isLoadingTriggered,
                 notScroll>>

\* A pending loadMore() settles: .finally(() => setIsLoadingTriggered(false))
loadMoreSettles(outcome) ==
  /\ scOutstanding > 0
  /\ Len(scUpdates) < MaxTriggerUpdates
  /\ scOutstanding' = scOutstanding - 1
  /\ scUpdates' = Append(scUpdates, FALSE)
  /\ scSettled' = outcome
  /\ UNCHANGED <<fallbackToButton, hasMore, scIsLoading, isLoadingTriggered,
                 notScroll>>

\* React renders the component: the queued updates are applied and the
\* parent's current hasMore and isLoading arrive as props.
RenderScroll(more, loading) ==
  /\ scUpdates # <<>> \/ more # hasMore \/ loading # scIsLoading
  /\ isLoadingTriggered' = lastUpdate(scUpdates, isLoadingTriggered)
  /\ scUpdates' = <<>>
  /\ hasMore' = more
  /\ scIsLoading' = loading
  /\ UNCHANGED <<fallbackToButton, scOutstanding, scSettled, notScroll>>

ClientIdle ==
  /\ retries = DefaultRetries
  /\ attempt = 0
  /\ sends = 0
  /\ pcReq = "returned"
  /\ errors = <<>>
  /\ delay = 0
  /\ sleeps = 0

(***************************************************************************)
(* Specifications                                                          *)
(***************************************************************************)

InitClient ==
  ClientInit /\ WindowIdle /\ RankIdle /\ PipelineIdle /\ LimiterIdle /\ JobIdle
    /\ RepoIdle /\ RaceIdle /\ PageIdle /\ HistoryIdle /\ OrderIdle
    /\ WrapperIdle /\ DelayIdle /\ FavoritesIdle /\ HookIdle
    /\ ScrollIdle

SpecClient == InitClient /\ [][ClientNext]_vars

\* Every awaited send ends (axios rejects with ECONNABORTED when the timeout
\* elapses), every sleep ends, and the loop goes on when it can.
SpecClientFair ==
  /\ InitClient
  /\ [][ClientNext]_vars
  /\ WF_vars(Send)
  /\ WF_vars(RespondOk \/ \E e \in ErrorKinds : RespondError(e))
  /\ WF_vars(Wake)

InitWindow ==
  WindowInit /\ ClientIdle /\ RankIdle /\ PipelineIdle /\ LimiterIdle /\ JobIdle
    /\ RepoIdle /\ RaceIdle /\ PageIdle /\ HistoryIdle /\ OrderIdle
    /\ WrapperIdle /\ DelayIdle /\ FavoritesIdle /\ HookIdle
    /\ ScrollIdle

NextWindow == GetWindowDates

SpecWindow == InitWindow /\ [][NextWindow]_vars

InitRank ==
  RankInit /\ ClientIdle /\ WindowIdle /\ PipelineIdle /\ LimiterIdle /\ JobIdle
    /\ RepoIdle /\ RaceIdle /\ PageIdle /\ HistoryIdle /\ OrderIdle
    /\ WrapperIdle /\ DelayIdle /\ FavoritesIdle /\ HookIdle
    /\ ScrollIdle

NextRank == RankStep

SpecRank == InitRank /\ [][NextRank]_vars

Init ==
  PipelineInit /\ ClientIdle /\ WindowIdle /\ RankIdle /\ LimiterIdle /\ JobIdle
    /\ RepoIdle /\ RaceIdle /\ PageIdle /\ HistoryIdle /\ OrderIdle
    /\ WrapperIdle /\ DelayIdle /\ FavoritesIdle /\ HookIdle
    /\ ScrollIdle

Next ==
  \/ \E key \in Keys : StartRun(key)
  \/ \E dup \in 0..MaxDups, failed \in FailCounts : FetchWindow(dup, failed)
  \/ NoCandidates
  \/ \E ok \in BOOLEAN : Enrich(ok)
  \/ InsertRow
  \/ \E pick \in 1..TopN : Commit(pick)
  \/ DbFail
  \/ Return
  \/ \E key \in Keys : ExpireCache(key)

Spec == Init /\ [][Next]_vars

InitStore ==
  PipelineIdle /\ ClientIdle /\ WindowIdle /\ RankIdle /\ LimiterIdle /\ JobIdle
    /\ RepoIdle /\ RaceIdle /\ PageIdle /\ HistoryIdle /\ OrderIdle
    /\ WrapperIdle /\ DelayIdle /\ FavoritesIdle /\ HookIdle
    /\ ScrollIdle

NextStore ==
  \E d \in FeatureDates, c \in Categories, p \in 1..MaxStorePaper, r \in 1..MaxStorePaper :
    PersistRow(d, c, p, r)

SpecStore == InitStore /\ [][NextStore]_vars

InitLimiter ==
  LimiterInit /\ PipelineIdle /\ ClientIdle /\ WindowIdle /\ RankIdle /\ JobIdle
    /\ RepoIdle /\ RaceIdle /\ PageIdle /\ HistoryIdle /\ OrderIdle
    /\ WrapperIdle /\ DelayIdle /\ FavoritesIdle /\ HookIdle
    /\ ScrollIdle

NextLimiter ==
  \/ \E p \in Providers : Submit(p)
  \/ \E p \in Providers : StartSend(p)
  \/ \E p \in Providers, id \in 1..MaxRequests, ok \in BOOLEAN :
       FinishSend(p, id, ok)
  \/ Tick

SpecLimiter == InitLimiter /\ [][NextLimiter]_vars

InitJob ==
  JobInit /\ PipelineIdle /\ ClientIdle /\ WindowIdle /\ RankIdle
    /\ LimiterIdle /\ RepoIdle /\ RaceIdle /\ PageIdle /\ HistoryIdle
    /\ OrderIdle /\ WrapperIdle /\ DelayIdle /\ FavoritesIdle
    /\ HookIdle /\ ScrollIdle

NextJob ==
  \/ \E outcome \in CategoryOutcomes : ProcessCategory(outcome)
  \/ ExitJob
  \/ InterruptJob

SpecJob == InitJob /\ [][NextJob]_vars

\* The job is a sequential program that keeps running: the processing of a
\* category ends (every wait has a timeout, every retry loop a bound) and the
\* loop goes on to the next category, then to the exit.
SpecJobFair ==
  /\ InitJob
  /\ [][NextJob]_vars
  /\ WF_vars(\E outcome \in CategoryOutcomes : ProcessCategory(outcome))
  /\ WF_vars(ExitJob)

InitRepo ==
  RepoInit /\ PipelineIdle /\ ClientIdle /\ WindowIdle /\ RankIdle
    /\ LimiterIdle /\ JobIdle /\ RaceIdle /\ PageIdle /\ HistoryIdle
    /\ OrderIdle /\ WrapperIdle /\ DelayIdle /\ FavoritesIdle
    /\ HookIdle /\ ScrollIdle

NextRepo ==
  \/ \E w \in Callers, a \in 1..MaxArxivId, c \in 0..MaxCitations,
        d \in UpdatedDates : FindPaper(w, a, c, d)
  \/ \E w \in Callers : WritePaper(w)

SpecRepo == InitRepo /\ [][NextRepo]_vars

InitRace ==
  RaceInit /\ PipelineIdle /\ ClientIdle /\ WindowIdle /\ RankIdle
    /\ LimiterIdle /\ JobIdle /\ RepoIdle /\ PageIdle /\ HistoryIdle
    /\ OrderIdle /\ WrapperIdle /\ DelayIdle /\ FavoritesIdle
    /\ HookIdle /\ ScrollIdle

NextRace ==
  \/ \E w \in Invokers : CheckCache(w)
  \/ \E w \in Invokers, top \in RaceShortlists : ComputeShortlist(w, top)
  \/ \E w \in Invokers : InsertRowOf(w)
  \/ \E w \in Invokers, pick \in 1..TopN : CommitOf(w, pick)

SpecRace == InitRace /\ [][NextRace]_vars

InitPage ==
  PageInit /\ PipelineIdle /\ ClientIdle /\ WindowIdle /\ RankIdle
    /\ LimiterIdle /\ JobIdle /\ RepoIdle /\ RaceIdle /\ HistoryIdle
    /\ OrderIdle /\ WrapperIdle /\ DelayIdle /\ FavoritesIdle
    /\ HookIdle /\ ScrollIdle

NextPage ==
  \/ \E form \in NotFoundForms : FetchAnswered(form)
  \/ \E kind \in FetchFailures : FetchFailed(kind)
  \/ Revalidate
  \/ \E p \in 0..MaxPagePaper : SelectionChanges(p)

SpecPage == InitPage /\ [][NextPage]_vars

InitHistory ==
  HistoryInit /\ PipelineIdle /\ ClientIdle /\ WindowIdle /\ RankIdle
    /\ LimiterIdle /\ JobIdle /\ RepoIdle /\ RaceIdle /\ PageIdle
    /\ OrderIdle /\ WrapperIdle /\ DelayIdle /\ FavoritesIdle
    /\ HookIdle /\ ScrollIdle

NextHistory ==
  \/ HistoryQuery
  \/ \E outcome \in {"valid", "invalid", "rejected"} : HistoryResponse(outcome)

SpecHistory == InitHistory /\ [][NextHistory]_vars

InitOrder ==
  OrderInit /\ PipelineIdle /\ ClientIdle /\ WindowIdle /\ RankIdle
    /\ LimiterIdle /\ JobIdle /\ RepoIdle /\ RaceIdle /\ PageIdle
    /\ HistoryIdle /\ WrapperIdle /\ DelayIdle /\ FavoritesIdle
    /\ HookIdle /\ ScrollIdle

NextOrder ==
  \/ \E d \in OrderDates : StartDateFetch(d)
  \/ \E d \in OrderDates, ok \in BOOLEAN : SettleDateFetch(d, ok)
  \/ RankCollected
  \/ PersistShortlist

SpecOrder == InitOrder /\ [][NextOrder]_vars

InitWrapper ==
  WrapperInit /\ PipelineIdle /\ ClientIdle /\ WindowIdle /\ RankIdle
    /\ LimiterIdle /\ JobIdle /\ RepoIdle /\ RaceIdle /\ PageIdle
    /\ HistoryIdle /\ OrderIdle /\ DelayIdle /\ FavoritesIdle
    /\ HookIdle /\ ScrollIdle

NextWrapper ==
  \/ \E ok \in BOOLEAN : PrepareJob(ok)
  \/ RunPython
  \/ LogCompletion
  \/ Cleanup

SpecWrapper == InitWrapper /\ [][NextWrapper]_vars

InitDelay ==
  DelayInit /\ PipelineIdle /\ ClientIdle /\ WindowIdle /\ RankIdle
    /\ LimiterIdle /\ JobIdle /\ RepoIdle /\ RaceIdle /\ PageIdle
    /\ HistoryIdle /\ OrderIdle /\ WrapperIdle /\ FavoritesIdle
    /\ HookIdle /\ ScrollIdle

NextDelay ==
  \E jitter \in Jitters(dlBase * Pow2(dlAttempt - 1)) : ComputeDelay(jitter)

SpecDelay == InitDelay /\ [][NextDelay]_vars

InitFavorites ==
  FavoritesInit /\ PipelineIdle /\ ClientIdle /\ WindowIdle /\ RankIdle
    /\ LimiterIdle /\ JobIdle /\ RepoIdle /\ RaceIdle /\ PageIdle
    /\ HistoryIdle /\ OrderIdle /\ WrapperIdle /\ DelayIdle /\ HookIdle
    /\ ScrollIdle

NextFavorites ==
  \/ \E p \in FavPapers, n \in FavNotes : addFavorite(p, n)
  \/ \E p \in FavPapers : removeFavorite(p)
  \/ \E p \in FavPapers, n \in FavNotes : updateFavorite(p, n)
  \/ \E confirmed \in BOOLEAN : clearAllFavorites(confirmed)
  \/ RenderFavorites

SpecFavorites == InitFavorites /\ [][NextFavorites]_vars

InitHook ==
  HookInit /\ PipelineIdle /\ ClientIdle /\ WindowIdle /\ RankIdle
    /\ LimiterIdle /\ JobIdle /\ RepoIdle /\ RaceIdle /\ PageIdle
    /\ HistoryIdle /\ OrderIdle /\ WrapperIdle /\ DelayIdle
    /\ FavoritesIdle /\ ScrollIdle

NextHook ==
  \/ \E p \in HookPapers : toggleFavorite(p)
  \/ \E p \in HookPapers : hookAddFavorite(p)
  \/ \E p \in HookPapers : hookRemoveFavorite(p)
  \/ RenderHook

SpecHook == InitHook /\ [][NextHook]_vars

InitScroll ==
  ScrollInit /\ PipelineIdle /\ ClientIdle /\ WindowIdle /\ RankIdle
    /\ LimiterIdle /\ JobIdle /\ RepoIdle /\ RaceIdle /\ PageIdle
    /\ HistoryIdle /\ OrderIdle /\ WrapperIdle /\ DelayIdle
    /\ FavoritesIdle /\ HookIdle

NextScroll ==
  \/ \E isIntersecting \in BOOLEAN : observerCallback(isIntersecting)
  \/ \E pastThreshold \in BOOLEAN : handleScroll(pastThreshold)
  \/ \E outcome \in {"resolved", "rejected"} : loadMoreSettles(outcome)
  \/ \E more, loading \in BOOLEAN : RenderScroll(more, loading)

SpecScroll == InitScroll /\ [][NextScroll]_vars

(***************************************************************************)
(* Claims                                                                  *)
(***************************************************************************)

lastError == errors[Len(errors)]

isClientError4xx(e) == isApiError(e) /\ e.status \in 400..499

\* C9 as stated: a response with a 4xx status other than 429 ends the request
\* at once: the error is thrown, no backoff wait is started and no further
\* send is made.
C9_Original ==
  (Len(errors) > 0 /\ isClientError4xx(lastError) /\ lastError.status # 429)
    => (pcReq = "thrown" /\ sends = Len(errors) /\ sleeps = Len(errors) - 1)

\* C9 amended: a response with a 4xx status other than 408 and 429 ends the
\* request at once (thrown, no backoff wait, no further send, so a request
\* whose first response is such a status is sent exactly once); a backoff
\* wait and a further send follow only a network error or timeout (no
\* response), a 408, a 429 or a 5xx response.
C9_NonRetryable4xx ==
  /\ (Len(errors) > 0 /\ isClientError4xx(lastError)
        /\ lastError.status \notin {408, 429})
       => (pcReq = "thrown" /\ delay = 0 /\ sends = Len(errors)
             /\ sleeps = Len(errors) - 1)
  /\ (Len(errors) > 0 /\ isClientError4xx(errors[1])
        /\ errors[1].status \notin {408, 429})
       => sends = 1
  /\ \A i \in 1..Len(errors) :
       (i < sends \/ (i = Len(errors) /\ pcReq = "sleeping"))
         => \/ isNetworkErr(errors[i])
            \/ errors[i].status \in {408, 429}
            \/ errors[i].status \in 500..599

C9_Witness ==
  /\ pcReq = "thrown"
  /\ retries = DefaultRetries
  /\ errors = <<ApiErr(503), ApiErr(404)>>
  /\ sends = 2

\* C10: windowDates returns exactly yearsBack dates, the i-th in year Y - i
\* with the target's month and day, except February 28th where the target is
\* February 29th and year Y - i is not a leap year; no date repeats.
C10_WindowDates ==
  wPc = "done" =>
    /\ Len(wDates) = wYearsBack
    /\ \A i \in 1..Len(wDates) :
         /\ wDates[i].y = wTarget.y - i
         /\ wDates[i].m = wTarget.m
         /\ wDates[i].d =
              IF wTarget.m = 2 /\ wTarget.d = 29 /\ daysInMonth(wTarget.y - i, 2) = 28
                THEN 28 ELSE wTarget.d
         /\ isValidDate(wDates[i])
    /\ \A i, j \in 1..Len(wDates) : i # j => wDates[i] # wDates[j]

C10_Witness ==
  /\ wPc = "done"
  /\ wTarget = Date(2024, 2, 29)
  /\ wYearsBack = 10
  /\ wDates[1] = Date(2023, 2, 28)
  /\ wDates[4] = Date(2020, 2, 29)

\* Position of the paper with identifier id in the list l (0 when absent).
PosOf(l, id) ==
  IF \E i \in 1..Len(l) : l[i].id = id
    THEN CHOOSE i \in 1..Len(l) : l[i].id = id
    ELSE 0

\* Citation count descending, then external identifier ascending.
RanksBeforeById(a, b) ==
  \/ a.citationCount > b.citationCount
  \/ (a.citationCount = b.citationCount /\ a.id < b.id)

\* Citation count descending, then position in the input list.
RanksBeforeByInput(l, a, b) ==
  \/ a.citationCount > b.citationCount
  \/ (a.citationCount = b.citationCount /\ PosOf(l, a.id) < PosOf(l, b.id))

RanksOf(rows) == [i \in 1..Len(rows) |-> rows[i].rank_in_day]

\* C3: the committed table holds for every key either no row or the complete
\* shortlist of one run, ranks 1..N in order; while a run writes its
\* shortlist and after a failure during the write the table is what it was
\* when the run started.
C3_NoPartialShortlist ==
  /\ pc = "persist" => featured = run.tableAtStart
  /\ (pc = "done" /\ run.status = "error") => featured = run.tableAtStart
  /\ \A key \in Keys :
       LET rows == rowsFor(featured, key)
       IN \/ rows = <<>>
          \/ /\ RanksOf(rows) = [i \in 1..Len(shortlists[key].top) |-> i]
             /\ \A i \in 1..Len(rows) :
                  rows[i].paper_id = shortlists[key].top[i].id

C3_Witness ==
  /\ pc = "done"
  /\ run.status = "error"
  /\ run.written \in 1..(Len(run.top) - 1)
  /\ rowsFor(featured, run.key) = <<>>

\* C4: the shortlist persisted from K deduplicated candidates has exactly
\* min(K, 10) rows whose ranks are 1, 2, ..., min(K, 10), each once.
C4_ShortlistCapAndDensity ==
  \A key \in Keys :
    LET rows == rowsFor(featured, key)
        n == Min(shortlists[key].cands, TopN)
    IN /\ Len(rows) = n
       /\ {rows[i].rank_in_day : i \in 1..Len(rows)} = 1..n
       /\ \A i, j \in 1..Len(rows) :
            i # j => rows[i].rank_in_day # rows[j].rank_in_day

C4_Witness ==
  \E key \in Keys :
    /\ shortlists[key].cands > TopN
    /\ Len(rowsFor(featured, key)) = TopN

\* C6 as stated: no two rows of daily_featured_papers have the same
\* (feature date, category, paper), the NULL category included.
C6_NoDuplicateTriple ==
  \A i, j \in 1..Len(featured) :
    (/\ featured[i].feature_date = featured[j].feature_date
     /\ featured[i].category = featured[j].category
     /\ featured[i].paper_id = featured[j].paper_id) => i = j

\* C7: a provider never has more than one request being sent, and two
\* consecutive sends to a provider start at least its minimum interval apart
\* (3000 ms for arXiv, 1000 ms for Semantic Scholar), retries included.
C7_SerializedAndSpaced ==
  \A p \in Providers :
    /\ Cardinality(inflight[p]) <= 1
    /\ \A i \in 1..(Len(starts[p]) - 1) :
         starts[p][i + 1].at - starts[p][i].at >= minTime(p)
    /\ minTime(p) = IF p = "arxiv" THEN 3000 ELSE 1000

\* Both providers sending at once, one of them for the second time within
\* the other's minimum interval.
C7_Witness ==
  /\ inflight["arxiv"] # {}
  /\ inflight["semanticScholar"] # {}
  /\ Len(starts["arxiv"]) = 2
  /\ Len(starts["semanticScholar"]) = 2
  /\ starts["semanticScholar"][2].at - starts["arxiv"][1].at < ArxivMinTime

\* C8: the sends to a provider start in the order in which the requests were
\* submitted: the started requests have increasing submission numbers and no
\* waiting request was submitted before a started one.
C8_Fifo ==
  \A p \in Providers :
    /\ \A i, j \in 1..Len(starts[p]) :
         i < j => starts[p][i].id < starts[p][j].id
    /\ \A i \in 1..Len(starts[p]) : \A j \in 1..Len(queue[p]) :
         starts[p][i].id < queue[p][j]

\* Three requests to arXiv sent in submission order while a request to
\* Semantic Scholar, submitted between them, was sent at the same time as
\* the first.
C8_Witness ==
  /\ Len(starts["arxiv"]) = 3
  /\ Len(starts["semanticScholar"]) = 1
  /\ starts["arxiv"][1].id = 1
  /\ starts["arxiv"][2].id = 3
  /\ starts["arxiv"][3].id = 4
  /\ starts["arxiv"][1].at = starts["semanticScholar"][1].at
  /\ starts["semanticScholar"][1].id = 2

lastRecord == ledger[Len(ledger)]

\* A run that went through the window has ended (by return or by error)
\* with fails of its date-fetches failed, some but not all.
PartialFetchRunEnded ==
  /\ pc = "done"
  /\ ~run.hit
  /\ run.fails > 0
  /\ run.fails < LookbackYears
  /\ run.status \notin {"error", "conflict"}

\* The papers the provider holds for the dates whose fetch succeeded.
expectedIds == {p \in 1..world.fresh : p > run.fails * MaxPerDate}

topIds == {run.top[i].id : i \in 1..Len(run.top)}

citesStored(id) == (CHOOSE q \in papersTable : q.id = id).citationCount

RunEnded ==
  /\ pc = "done"
  /\ ~run.hit
  /\ run.status # "conflict"

\* C12 as stated: every run records exactly one status; it is "failed"
\* exactly when zero papers were obtained, and then no row is written for the
\* key; "partial" when fewer than all date-fetches succeeded; "success"
\* otherwise; exactly one of the three rules applies to the fetch outcomes.
C12_Original ==
  RunEnded =>
    LET zero == expectedIds = {}
        fewer == run.fails > 0
    IN /\ Len(ledger) = run.ledgerAtStart + 1
       /\ lastRecord.status \in {"success", "partial", "failed"}
       /\ lastRecord.status = "failed" <=> zero
       /\ zero => rowsFor(featured, run.key) = <<>>
       /\ lastRecord.status = "partial" => fewer
       /\ lastRecord.status = "success" <=> (~zero /\ ~fewer)
       /\ ~(zero /\ fewer)

\* C12 amended: every run that goes past the cache check records exactly one
\* status: "failed" when its shortlist write fails or when zero papers were
\* obtained (then no row is written for the key); otherwise "partial" when a
\* date-fetch failed; otherwise "success".  Rows are written for the key
\* exactly by the runs recorded "partial" or "success".
C12_StatusByOutcome ==
  RunEnded =>
    /\ Len(ledger) = run.ledgerAtStart + 1
    /\ lastRecord.status =
         (CASE run.status = "error" -> "failed"
            [] run.status # "error" /\ expectedIds = {} -> "failed"
            [] run.status # "error" /\ expectedIds # {} /\ run.fails > 0
                 -> "partial"
            [] OTHER -> "success")
    /\ lastRecord.status = "failed" => rowsFor(featured, run.key) = <<>>
    /\ lastRecord.status \in {"partial", "success"} =>
         (run.rowsAtStart = <<>> /\ rowsFor(featured, run.key) # <<>>)

C12_Witness ==
  /\ RunEnded
  /\ Len(ledger) = 3
  /\ ledger[2] = RunRecord(run.key, 0, "failed", "provider error")
  /\ lastRecord.status = "partial"
  /\ lastRecord.papers_fetched > TopN

\* The RunRecord of a run for key whose date-fetches all succeeded and
\* returned nothing.
IsEmptyWindowRecord(r, key) ==
  /\ r.fetch_date = key[1]
  /\ r.category = key[2]
  /\ r.papers_fetched = 0
  /\ r.error_message = NULL

\* A run has ended without papers after provider errors in its date-fetches.
FailedFetchRunEnded ==
  /\ RunEnded
  /\ run.fails > 0
  /\ expectedIds = {}
  /\ run.status # "error"

\* A run has ended whose date-fetches all succeeded and returned nothing.
EmptyWindowRunEnded ==
  /\ RunEnded
  /\ run.fails = 0
  /\ world.fresh = 0

AllStatus(statuses, st) == \A i \in 1..Len(statuses) : statuses[i] = st

SomeStatus(statuses, st) == \E i \in 1..Len(statuses) : statuses[i] = st

\* C14 as stated: the exit code is 0 exactly when all categories succeeded,
\* 2 exactly when all categories failed, 1 when a category was partial or
\* failed and another succeeded, and one of the three cases applies to
\* every list of statuses.
C14_Original ==
  jobPc = "exited" =>
    LET allOk == AllStatus(jobStatuses, "success")
        allFailed == AllStatus(jobStatuses, "failed")
        mixed == /\ SomeStatus(jobStatuses, "success")
                 /\ \/ SomeStatus(jobStatuses, "partial")
                    \/ SomeStatus(jobStatuses, "failed")
    IN /\ exitStatus = 0 <=> allOk
       /\ exitStatus = 2 <=> allFailed
       /\ mixed => exitStatus = 1
       /\ allOk \/ allFailed \/ mixed

\* C14 amended: the exit code is 0 exactly when all categories succeeded, 2
\* exactly when no category succeeded (all partial or failed), 1 exactly
\* when a category succeeded and another did not; 130 exactly on
\* interruption.
C14_ExitCode ==
  /\ jobPc = "exited" =>
       LET allOk == AllStatus(jobStatuses, "success")
           noneOk == ~SomeStatus(jobStatuses, "success")
       IN /\ Len(jobStatuses) = Len(jobCats)
          /\ exitStatus \in {0, 1, 2}
          /\ exitStatus = 0 <=> allOk
          /\ exitStatus = 2 <=> noneOk
          /\ exitStatus = 1 <=> (~allOk /\ ~noneOk)
  /\ exitStatus = ExitInterrupted <=> jobPc = "interrupted"
  /\ jobPc \in {"idle", "running"} <=> exitStatus = -1

C14_Witness ==
  /\ jobPc = "exited"
  /\ jobStatuses = <<"partial", "success", "failed">>
  /\ exitStatus = 1

\* The categories processed so far have one RunRecord each, in order, whose
\* status is the category's outcome, "failed" for an error or a timeout.
JobRecordsMatch ==
  /\ Len(jobLedger) = jobPos - 1
  /\ Len(jobOutcomes) = jobPos - 1
  /\ jobPos <= Len(jobCats) + 1
  /\ \A i \in 1..Len(jobLedger) :
       /\ jobLedger[i].category = jobCats[i]
       /\ jobLedger[i].status = jobStatuses[i]
       /\ jobOutcomes[i] \in {"error", "timeout"} =>
            jobLedger[i].status = "failed"
       /\ jobOutcomes[i] \notin {"error", "timeout"} =>
            jobLedger[i].status = jobOutcomes[i]

\* C15: a failure while a category is processed never ends the job: it is
\* recorded as the status of the category, the job goes on with the next
\* category, and (unless the process is interrupted from outside) the job
\* exits with a RunRecord for every requested category.
C15_FailuresAbsorbed ==
  /\ [](jobPc # "crashed")
  /\ []JobRecordsMatch
  /\ [](jobPc = "exited" => Len(jobLedger) = Len(jobCats))
  /\ <>(jobPc = "interrupted" \/ jobPc = "exited")

C15_Witness ==
  /\ jobPc = "exited"
  /\ jobOutcomes = <<"error", "success", "timeout", "partial">>
  /\ Len(jobLedger) = 4
  /\ jobLedger[1].status = "failed"
  /\ jobLedger[2].status = "success"

storedIds == {q.id : q \in papersTable}

\* C16: the Paper Repository holds every paper that came out of the
\* enrichment step of a run, on the shortlist or not, also when the shortlist
\* write fails afterwards, and its set of external identifiers only grows.
C16_RepositoryOnlyGrows ==
  /\ []((pc \in {"persist", "done"} /\ ~run.hit /\ run.cands > 0) =>
          /\ Range(dedupe(run.raw)) \subseteq storedIds
          /\ \A i \in 1..Len(run.top) : run.top[i] \in papersTable)
  /\ [][storedIds \subseteq {q.id : q \in papersTable'}]_vars

C16_Witness ==
  /\ pc = "done"
  /\ run.status = "error"
  /\ run.cands > TopN
  /\ storedIds = 1..run.cands
  /\ rowsFor(featured, run.key) = <<>>

\* C17: the papers table holds at most one row per external identifier, and
\* the last upsert that ended left the row of its identifier with the incoming
\* citation count and last-updated date, with the id and the creation time
\* the row had before, every other row as it was, and the whole table as it
\* was when the incoming data were the stored data already.
C17_UpsertByIdentifier ==
  /\ \A r1, r2 \in repoRows : r1.arxiv_id = r2.arxiv_id => r1 = r2
  /\ lastUpsert # NoLastUpsert =>
       /\ \E r \in repoRows :
            /\ r.arxiv_id = lastUpsert.arxiv_id
            /\ r.citation_count = lastUpsert.citation_count
            /\ r.updated_date = lastUpsert.updated_date
            /\ \A b \in lastUpsert.before :
                 b.arxiv_id = r.arxiv_id =>
                   r.id = b.id /\ r.created_at = b.created_at
       /\ \A b \in lastUpsert.before :
            b.arxiv_id # lastUpsert.arxiv_id => b \in repoRows
       /\ (\E b \in lastUpsert.before :
             /\ b.arxiv_id = lastUpsert.arxiv_id
             /\ b.citation_count = lastUpsert.citation_count
             /\ b.updated_date = lastUpsert.updated_date)
            => repoRows = lastUpsert.before

\* An upsert changed the citation count of a stored paper at a later time
\* than the paper's creation, while another caller that had not found the
\* paper is still about to write it.
C17_Witness ==
  /\ \E b \in lastUpsert.before :
       /\ b.arxiv_id = lastUpsert.arxiv_id
       /\ b.citation_count # lastUpsert.citation_count
       /\ b.created_at < repoClock
  /\ \E w \in Callers :
       /\ up[w].pc = "write"
       /\ up[w].arxiv_id = lastUpsert.arxiv_id
       /\ ~up[w].found

\* C18: no step modifies or removes a record of the ledger, a run that is
\* past the cache check has appended nothing yet, and when it has ended it
\* has appended exactly one record, the one of its (run date, category).
C18_LedgerAppendOnly ==
  /\ [][/\ Len(ledger') >= Len(ledger)
        /\ SubSeq(ledger', 1, Len(ledger)) = ledger]_vars
  /\ [](pc \in {"fetch", "enrich", "persist"} =>
          Len(ledger) = run.ledgerAtStart)
  /\ [](RunEnded =>
          /\ Len(ledger) = run.ledgerAtStart + 1
          /\ lastRecord.fetch_date = run.key[1]
          /\ lastRecord.category = run.key[2])

\* A run has ended for a (run date, category) the ledger already held a
\* record of.
C18_Witness ==
  /\ RunEnded
  /\ \E i \in 1..run.ledgerAtStart :
       /\ ledger[i].fetch_date = run.key[1]
       /\ ledger[i].category = run.key[2]

\* The rows of daily_featured_papers a committed shortlist consists of.
shortlistRows(top) ==
  [n \in 1..Len(top) |-> Row(raceKey[1], raceKey[2], top[n], n)]

BothReturned == \A w \in Invokers : inv[w].pc = "done"

\* C19 as stated: when both interleaved invocations of a key have returned,
\* the key holds exactly the shortlist one of them committed, an invocation
\* that met the unique-constraint conflict returned the paper the other
\* persisted as chosen, and both returned the same paper.
C19_OneShortlistPerKey ==
  BothReturned =>
    /\ \E w \in Invokers :
         /\ inv[w].status = "success"
         /\ rowsFor(featured, raceKey) = shortlistRows(inv[w].top)
    /\ \A w \in Invokers :
         inv[w].status = "conflict" =>
           \E o \in Invokers \ {w} :
             inv[o].status = "success" /\ inv[w].result = inv[o].result
    /\ inv[1].result = inv[2].result

\* C20: a request is sent at most the configured retry count plus one times,
\* every send fails before the next one is made, and the request ends: it
\* returns a response, or throws the error of its last send.
C20_RequestTerminates ==
  /\ [](/\ sends <= retries + 1
        /\ sends <= Len(errors) + 1
        /\ pcReq = "thrown" => Len(errors) = sends)
  /\ <>(pcReq \in {"returned", "thrown"})

\* A request with the largest retry count explored was thrown after a timeout
\* and retryable responses only, with a backoff wait between the sends.
C20_Witness ==
  /\ pcReq = "thrown"
  /\ retries = MaxRetries
  /\ sends = MaxRetries
  /\ sleeps = sends - 1
  /\ errors[1] = NetErr("ECONNABORTED")
  /\ \A i \in 1..Len(errors) : shouldRetry(errors[i], 0)

\* C21 as stated: when the last request was answered "no FeaturedSelection",
\* the home page renders its empty state and not its error state, and it
\* renders the error state only when the last request itself failed.
C21_Original ==
  ~swrValidating =>
    /\ lastAnswer = "notFound" => HomePage = {"empty"}
    /\ "error" \in HomePage => lastAnswer = "failed"

\* C30 as stated: the home page renders exactly one of its four content
\* states.
C30_Original == Cardinality(HomePage) = 1

hqPageInvalid ==
  /\ hqParams.page.kind # "undefined"
  /\ ~(~hqParams.page.frac /\ hqParams.page.v >= 1)

hqLimitInvalid ==
  /\ hqParams.limit.kind # "undefined"
  /\ ~(~hqParams.limit.frac /\ hqParams.limit.v \in 1..100)

hqCategoryBlank ==
  /\ hqParams.category.kind # "undefined"
  /\ \A i \in 1..Len(hqParams.category.s) : hqParams.category.s[i] = " "

\* C22: once historyQuery has validated its parameters, either one of them is
\* invalid (page not an integer >= 1, limit not an integer in 1..100, category
\* blank) and a ValidationError naming a parameter was thrown with no request
\* made, or exactly one request was made to /api/paper/history with page
\* (default 1), limit (default 20), the category only when given, and no
\* other query parameter.
C22_HistoryParamsValidated ==
  hqPc \in {"awaiting", "returned", "thrown"} =>
    IF hqPageInvalid \/ hqLimitInvalid \/ hqCategoryBlank
      THEN /\ hqPc = "thrown"
           /\ hqError.isValidationError
           /\ hqError.field \in {"page", "limit", "category"}
           /\ hqRequests = <<>>
      ELSE /\ Len(hqRequests) = 1
           /\ hqError.field \notin {"page", "limit", "category"}
           /\ hqRequests[1].url = "/api/paper/history"
           /\ hqRequests[1].params.page =
                (IF hqParams.page.kind = "undefined" THEN 1 ELSE hqParams.page.v)
           /\ hqRequests[1].params.limit =
                (IF hqParams.limit.kind = "undefined" THEN 20
                 ELSE hqParams.limit.v)
           /\ DOMAIN hqRequests[1].params =
                (IF hqParams.category.kind = "undefined"
                   THEN {"page", "limit"} ELSE {"page", "limit", "category"})
           /\ hqParams.category.kind # "undefined" =>
                hqRequests[1].params.category = trim(hqParams.category.s)

\* A call with the largest limit allowed and a category written with
\* surrounding spaces made its request and returned.
C22_Witness ==
  /\ hqPc = "returned"
  /\ hqParams.page = UndefinedNumber
  /\ hqParams.limit = Number(100, FALSE)
  /\ hqParams.category = String(<<" ", "a">>)
  /\ hqRequests = <<[url |-> "/api/paper/history",
                     params |-> [page |-> 1, limit |-> 100,
                                 category |-> <<"a">>]]>>

\* The shortlist of the same successful date-fetches settled in window order.
shortlistInWindowOrder ==
  selectTopPapers(enrichWithCitations(inWindowOrder(1, ordFailed)), TopN)

citesOf(papers) == [i \in 1..Len(papers) |-> papers[i].citationCount]

ordRankedAfterAll ==
  ordPc \in {"ranked", "persisted"} =>
    /\ ordSettledAtRank = MaxOrderDates
    /\ ordPending = {} /\ ordInflight = {}
    /\ Len(ordRaw) + Cardinality(ordFailed) = MaxOrderDates

C25_Original ==
  (shPc = "exited" /\ PlainLine("Executing daily job") \in Range(shLog)) =>
    /\ StatusLine(shCode) \in Range(shLog)
    /\ shExit = shCode

\* C24: the delay computed for attempt n and base delay b is at least
\* min(b * 2^(n-1), 30000), at most 1.1 * b * 2^(n-1) and at most 30000.
C24_DelayBounds ==
  dlDelay # -1 =>
    LET exponentialDelay == dlBase * Pow2(dlAttempt - 1)
    IN /\ dlDelay >= Min(exponentialDelay, 30000)
       /\ 10 * dlDelay <= 11 * exponentialDelay
       /\ dlDelay <= 30000

\* A delay below the cap with the largest jitter explored, and a delay cut
\* to the cap.
C24_Witness ==
  /\ dlBase = 1000
  /\ \/ dlAttempt = 3 /\ dlDelay = 4399
     \/ dlAttempt = 6 /\ dlDelay = 30000


\* Every send of the request failed with an error the client retries: a
\* network error or timeout, or a 408, 429, 500, 502, 503 or 504 response.
keepsFailingRetryable ==
  /\ Len(errors) > 0
  /\ \A i \in 1..Len(errors) :
       \/ isNetworkErr(errors[i])
       \/ errors[i].status \in {408, 429, 500, 502, 503, 504}

\* C26: a request that keeps failing with a retryable error is thrown to the
\* caller after exactly retries + 1 sends and retries backoff waits.
C26_Original ==
  (pcReq = "thrown" /\ keepsFailingRetryable)
    => (sends = retries + 1 /\ sleeps = retries)


\* C27: the favorites list never holds two entries with the same paper id
\* and never more than MAX_FAVORITES entries.
C27_Original ==
  /\ \A i, j \in 1..Len(favorites) :
       favorites[i].id = favorites[j].id => i = j
  /\ Len(favorites) <= MAX_FAVORITES


\* C28: once the calls made so far are rendered, the array stored under
\* 'favorite-papers' holds exactly the ids of the in-memory set, each once.
C28_Original ==
  fpQueue = <<>> =>
    /\ \A i, j \in 1..Len(fpStored) : fpStored[i] = fpStored[j] => i = j
    /\ {fpStored[i] : i \in 1..Len(fpStored)}
         = {fpFavorites[i] : i \in 1..Len(fpFavorites)}


\* C29: scroll-triggered and intersection-triggered loading never has more
\* than one loadMore call outstanding.
C29_Original == scOutstanding <= 1

=============================================================================
